-------------------------- MODULE SoftTimerProofs --------------------------
(***************************************************************************)
(* For any number of timers and any period: the timer thread never sleeps  *)
(* for ever with a timer on its list, but for the one tick that stands for *)
(* an empty list; the list keeps its order while the ticks wrap around;    *)
(* and the timers are those of the abstract service, so that nothing is    *)
(* unlocked early but in the one window the code leaves.                   *)
(***************************************************************************)
EXTENDS SoftTimer, FiniteSetTheorems, TLAPS

(***************************************************************************)
(* What is needed of the types.                                            *)
(***************************************************************************)
Types ==
  /\ list \in Seq(Ops) /\ active \subseteq Ops
  /\ sleep # 0 => tt = "asleep"

\* The timer thread has a timer off the list to call its function.
InCall == tt \in {"call", "called", "again"}

(***************************************************************************)
(* A timer once started is always on the list or being called, so the list *)
(* is empty for the thread that reads it only before the first start; and  *)
(* then the thread is suspended, where the first start resumes it.         *)
(***************************************************************************)
OnList ==
  /\ \A o \in Ops : Pending(o) => o \in active
  /\ \A o \in active : Pending(o) \/ (o = t /\ InCall)
  /\ active = {} => tt = "suspended"

(***************************************************************************)
(* Who is about to suspend itself, or has done so with timers started, was *)
(* misled by the expiry it read.                                           *)
(***************************************************************************)
Misled ==
  /\ tt = "timeout" /\ next = RT_TICK_MAX => mistaken
  /\ tt = "suspended" /\ active # {} => mistaken

WakeInv == Types /\ OnList /\ Misled
-----------------------------------------------------------------------------
\* No timer is started at first, and the thread is suspended.
LEMMA InitWakeInv == Init => WakeInv
<1> SUFFICES ASSUME Init PROVE WakeInv
  OBVIOUS
<1>1. list = <<>> /\ active = {} /\ sleep = 0 /\ tt = "suspended"
  BY DEF Init
<1>2. \A o \in Ops : ~ Pending(o)
  BY <1>1 DEF Pending
<1>3. Types
  BY <1>1 DEF Types
<1> QED BY <1>1, <1>2, <1>3 DEF WakeInv, OnList, Misled

\* A timer's node is removed (rt_list_remove): the timers behind it move up.
LEMMA Removed ==
  ASSUME list \in Seq(Ops), NEW o, Pending(o)
  PROVE  /\ Position(o) \in 1 .. Len(list) /\ list[Position(o)] = o
         /\ Without(o) \in Seq(Ops) /\ Len(Without(o)) = Len(list) - 1
         /\ \A i \in 1 .. Position(o) - 1 : Without(o)[i] = list[i]
         /\ \A i \in Position(o) .. Len(list) - 1 : Without(o)[i] = list[i + 1]
<1> DEFINE k == Position(o)  r == Without(o)
           a == SubSeq(list, 1, k - 1)  b == SubSeq(list, k + 1, Len(list))
<1>1. k \in 1 .. Len(list) /\ list[k] = o
  BY DEF Position, Pending
<1>2. r = a \o b
  BY DEF Without, RemoveAt
<1> HIDE DEF k, r
<1>3. a \in Seq(Ops) /\ Len(a) = k - 1 /\ \A i \in 1 .. k - 1 : a[i] = list[i]
  BY <1>1
<1>4. b \in Seq(Ops) /\ Len(b) = Len(list) - k
      /\ \A i \in 1 .. Len(list) - k : b[i] = list[k + i]
  BY <1>1
<1> HIDE DEF a, b
<1>5. r \in Seq(Ops) /\ Len(r) = Len(list) - 1
  BY <1>1, <1>2, <1>3, <1>4
<1>6. ASSUME NEW i \in 1 .. k - 1
      PROVE  r[i] = list[i]
  BY <1>1, <1>2, <1>3, <1>4, <1>6
<1>7. ASSUME NEW i \in k .. Len(list) - 1
      PROVE  r[i] = list[i + 1]
  <2>1. r[i] = b[i - (k - 1)] /\ i - (k - 1) \in 1 .. Len(list) - k
    BY <1>1, <1>2, <1>3, <1>4, <1>7
  <2> QED BY <1>1, <1>4, <1>7, <2>1
<1> QED BY <1>1, <1>5, <1>6, <1>7 DEF k, r

\* The list without a timer.
LEMMA WithoutList ==
  ASSUME list \in Seq(Ops), NEW o
  PROVE  /\ Without(o) \in Seq(Ops)
         /\ \A i \in DOMAIN Without(o) : Pending(Without(o)[i])
         /\ \A p \in Ops \ {o} : Pending(p) => \E i \in DOMAIN Without(o) : Without(o)[i] = p
<1>1. CASE ~ Pending(o)
  BY <1>1 DEF Without, Pending
<1>2. CASE Pending(o)
  <2> DEFINE k == Position(o)  r == Without(o)
  <2>1. k \in 1 .. Len(list) /\ list[k] = o
    BY <1>2, Removed
  <2>2. /\ r \in Seq(Ops) /\ Len(r) = Len(list) - 1
        /\ \A i \in 1 .. k - 1 : r[i] = list[i]
        /\ \A i \in k .. Len(list) - 1 : r[i] = list[i + 1]
    BY <1>2, Removed
  <2> HIDE DEF k, r
  <2>3. ASSUME NEW i \in DOMAIN r
        PROVE  Pending(r[i])
    <3>1. i \in 1 .. Len(list) - 1
      BY <2>2
    <3>2. r[i] = list[i] \/ r[i] = list[i + 1]
      BY <2>1, <2>2, <3>1
    <3> QED BY <3>1, <3>2 DEF Pending
  <2>4. ASSUME NEW p \in Ops \ {o}, Pending(p)
        PROVE  \E i \in DOMAIN r : r[i] = p
    <3>1. PICK j \in 1 .. Len(list) : list[j] = p
      BY <2>4 DEF Pending
    <3>2. CASE j < k
      BY <2>1, <2>2, <3>1, <3>2
    <3>3. CASE j > k
      <4>1. j - 1 \in k .. Len(list) - 1 /\ r[j - 1] = p
        BY <2>1, <2>2, <3>1, <3>3
      <4> QED BY <2>1, <2>2, <4>1
    <3> QED BY <2>1, <2>4, <3>1, <3>2, <3>3
  <2> QED BY <2>2, <2>3, <2>4 DEF r
<1> QED BY <1>1, <1>2

\* A timer goes to one of the places from the first to the one behind the last.
LEMMA PlaceInList ==
  ASSUME NEW l \in Seq(Ops), NEW e
  PROVE  Place(l, e) \in 1 .. Len(l) + 1
<1> DEFINE After(i) == Minus(expiry[l[i]], e) \in 1 .. Half - 1
           Passed == {i \in DOMAIN l : \A j \in 1 .. i : ~ After(j)}
<1>1. Place(l, e) = Cardinality(Passed) + 1
  BY DEF Place
<1>2. Passed \subseteq 1 .. Len(l)
  OBVIOUS
<1> HIDE DEF Passed
<1>3. IsFiniteSet(1 .. Len(l)) /\ Cardinality(1 .. Len(l)) = Len(l)
  <2>1. Len(l) \in Nat
    OBVIOUS
  <2> DEFINE k == Len(l)
  <2> HIDE DEF k
  <2>2. 1 \in Int /\ k \in Int /\ k >= 0
    BY <2>1 DEF k
  <2>3. IsFiniteSet(1 .. k) /\ Cardinality(1 .. k) = IF 1 > k THEN 0 ELSE k - 1 + 1
    BY <2>2, FS_Interval, Zenon
  <2> QED BY <2>2, <2>3 DEF k
<1>4. Cardinality(Passed) \in Nat /\ Cardinality(Passed) <= Len(l)
  BY <1>2, <1>3, FS_Subset, FS_CardinalityType
<1> QED BY <1>1, <1>4

\* InsertAt puts an element between others.
LEMMA Inserted ==
  ASSUME NEW l \in Seq(Ops), NEW o \in Ops, NEW k \in 1 .. Len(l) + 1
  PROVE  /\ InsertAt(l, k, o) \in Seq(Ops) /\ Len(InsertAt(l, k, o)) = Len(l) + 1
         /\ InsertAt(l, k, o)[k] = o
         /\ \A i \in 1 .. k - 1 : InsertAt(l, k, o)[i] = l[i]
         /\ \A i \in k + 1 .. Len(l) + 1 : InsertAt(l, k, o)[i] = l[i - 1]
<1> DEFINE a == SubSeq(l, 1, k - 1)  b == SubSeq(l, k, Len(l))
           c == a \o <<o>>  r == InsertAt(l, k, o)
<1>1. a \in Seq(Ops) /\ Len(a) = k - 1 /\ \A i \in 1 .. k - 1 : a[i] = l[i]
  OBVIOUS
<1>2. b \in Seq(Ops) /\ Len(b) = Len(l) - k + 1
      /\ \A i \in 1 .. Len(l) - k + 1 : b[i] = l[k + i - 1]
  OBVIOUS
<1>3. r = c \o b
  BY DEF InsertAt
<1> HIDE DEF a, b, r
<1>4. c \in Seq(Ops) /\ Len(c) = k /\ c[k] = o /\ \A i \in 1 .. k - 1 : c[i] = l[i]
  BY <1>1
<1> HIDE DEF c
<1>5. r \in Seq(Ops) /\ Len(r) = Len(l) + 1 /\ \A i \in 1 .. k : r[i] = c[i]
  <2>1. Len(r) = Len(l) + 1
    <3>1. b \in Seq(Ops) /\ c \in Seq(Ops)
      BY <1>2, <1>4
    <3>2. Len(c \o b) = Len(c) + Len(b)
      BY ONLY <3>1
    <3> QED BY <1>2, <1>3, <1>4, <3>2
  <2>2. r \in Seq(Ops) /\ \A i \in 1 .. k : r[i] = c[i]
    BY <1>2, <1>3, <1>4
  <2> QED BY <2>1, <2>2
<1>6. ASSUME NEW i \in k + 1 .. Len(l) + 1
      PROVE  r[i] = l[i - 1]
  <2>1. r[i] = b[i - k] /\ i - k \in 1 .. Len(l) - k + 1
    BY <1>2, <1>3, <1>4, <1>6
  <2> QED BY <1>2, <1>6, <2>1
<1>7. r[k] = o /\ \A i \in 1 .. k - 1 : r[i] = l[i]
  BY <1>4, <1>5
<1> QED BY <1>5, <1>6, <1>7 DEF r

\* The list with a timer started (rt_timer_start): it is on it, the others as before.
LEMMA StartedList ==
  ASSUME list \in Seq(Ops), NEW o \in Ops, list' = Started(o).list
  PROVE  /\ list' \in Seq(Ops)
         /\ \A p \in Ops : Pending(p)' <=> Pending(p) \/ p = o
<1> DEFINE e == (now + Period) % W  l == Without(o)  k == Place(l, e)
<1>1. list' = InsertAt(l, k, o)
  BY DEF Started
<1>2. /\ l \in Seq(Ops)
      /\ \A i \in DOMAIN l : Pending(l[i])
      /\ \A p \in Ops \ {o} : Pending(p) => \E i \in DOMAIN l : l[i] = p
  BY WithoutList
<1> HIDE DEF l, e
<1>3. k \in 1 .. Len(l) + 1
  BY <1>2, PlaceInList
<1> HIDE DEF k
<1>4. /\ list' \in Seq(Ops) /\ Len(list') = Len(l) + 1
      /\ list'[k] = o
      /\ \A i \in 1 .. k - 1 : list'[i] = l[i]
      /\ \A i \in k + 1 .. Len(l) + 1 : list'[i] = l[i - 1]
  <2>1. l \in Seq(Ops) /\ k \in 1 .. Len(l) + 1
    BY <1>2, <1>3
  <2> DEFINE r == InsertAt(l, k, o)
  <2>2. /\ r \in Seq(Ops) /\ Len(r) = Len(l) + 1
        /\ r[k] = o
        /\ \A i \in 1 .. k - 1 : r[i] = l[i]
        /\ \A i \in k + 1 .. Len(l) + 1 : r[i] = l[i - 1]
    BY <2>1, Inserted
  <2> HIDE DEF r
  <2>3. list' = r
    BY <1>1 DEF r
  <2> QED BY ONLY <2>2, <2>3, Zenon
<1>5. ASSUME NEW p \in Ops, Pending(p)'
      PROVE  Pending(p) \/ p = o
  <2>1. PICK i \in 1 .. Len(l) + 1 : list'[i] = p
    BY <1>4, <1>5 DEF Pending
  <2>2. i = k \/ i \in 1 .. k - 1 \/ i \in k + 1 .. Len(l) + 1
    BY <1>2, <1>3, <2>1
  <2>3. CASE i \in 1 .. k - 1
    BY <1>2, <1>3, <1>4, <2>1, <2>3
  <2>4. CASE i \in k + 1 .. Len(l) + 1
    <3>1. i - 1 \in DOMAIN l /\ l[i - 1] = p
      BY <1>2, <1>3, <1>4, <2>1, <2>4
    <3> QED BY <1>2, <3>1
  <2> QED BY <1>4, <2>1, <2>2, <2>3, <2>4
<1>6. ASSUME NEW p \in Ops, Pending(p) \/ p = o
      PROVE  Pending(p)'
  <2>1. CASE p = o
    <3>1. k \in DOMAIN list' /\ list'[k] = p
      BY <1>2, <1>3, <1>4, <2>1
    <3> QED BY <3>1 DEF Pending
  <2>2. CASE p # o
    <3>1. PICK i \in 1 .. Len(l) : l[i] = p
      BY <1>2, <1>6, <2>2
    <3>2. CASE i < k
      <4>1. i \in DOMAIN list' /\ list'[i] = p
        BY <1>2, <1>3, <1>4, <3>1, <3>2
      <4> QED BY <4>1 DEF Pending
    <3>3. CASE i >= k
      <4>1. i + 1 \in k + 1 .. Len(l) + 1 /\ l[(i + 1) - 1] = p
        BY <1>2, <1>3, <3>1, <3>3
      <4>2. i + 1 \in DOMAIN list' /\ list'[i + 1] = p
        BY <1>2, <1>4, <4>1
      <4> QED BY <4>2 DEF Pending
    <3> QED BY <1>2, <1>3, <3>1, <3>2, <3>3
  <2> QED BY <2>1, <2>2
<1> QED BY <1>4, <1>5, <1>6

(***************************************************************************)
(* Steps that start a timer: the first one finds the thread suspended.     *)
(***************************************************************************)
LEMMA LockOutKeeps ==
  ASSUME WakeInv, NEW o \in Ops, LockOut(o)
  PROVE  WakeInv'
<1>1. /\ list' \in Seq(Ops)
      /\ \A p \in Ops : Pending(p)' <=> Pending(p) \/ p = o
  BY StartedList DEF LockOut, WakeInv, Types
<1>2. active' = active \cup {o} /\ t' = t /\ next' = next
  BY DEF LockOut, threadVars
<1>3. \/ tt' = "check" /\ sleep' = 0 /\ tt \in {"asleep", "suspended"}
      \/ tt' = tt /\ sleep' = sleep /\ mistaken' = mistaken /\ tt # "suspended"
  BY DEF LockOut, Resume
<1>4. Types'
  BY <1>1, <1>2, <1>3 DEF WakeInv, Types
<1>5. OnList'
  BY <1>1, <1>2, <1>3 DEF WakeInv, Types, OnList, InCall
<1>6. Misled'
  BY <1>2, <1>3 DEF WakeInv, Misled
<1> QED BY <1>4, <1>5, <1>6 DEF WakeInv

\* The timer that was called is started again.
LEMMA AgainKeeps ==
  ASSUME WakeInv, Again
  PROVE  WakeInv'
<1>1. tt = "again" /\ tt' = "visit" /\ UNCHANGED <<active, next, sleep>>
  BY DEF Again, At
<1>2. Misled'
  BY <1>1 DEF Misled
<1>3. CASE t \in active
  <2>1. t \in Ops /\ list' = Started(t).list
    BY <1>3 DEF Again, WakeInv, Types
  <2>2. /\ list' \in Seq(Ops)
        /\ \A p \in Ops : Pending(p)' <=> Pending(p) \/ p = t
    BY <2>1, StartedList DEF WakeInv, Types
  <2>3. Types'
    BY <1>1, <2>2 DEF WakeInv, Types
  <2>4. OnList'
    BY <1>1, <1>3, <2>1, <2>2 DEF WakeInv, Types, OnList, InCall
  <2> QED BY <1>2, <2>3, <2>4 DEF WakeInv
<1>4. CASE t \notin active
  <2>1. list' = list
    BY <1>4 DEF Again
  <2>2. \A p \in Ops : Pending(p)' <=> Pending(p)
    BY <2>1 DEF Pending
  <2>3. Types'
    BY <1>1, <2>1 DEF WakeInv, Types
  <2>4. OnList'
    BY <1>1, <1>4, <2>2 DEF WakeInv, Types, OnList, InCall
  <2> QED BY <1>2, <2>3, <2>4 DEF WakeInv
<1> QED BY <1>3, <1>4

(***************************************************************************)
(* A visit takes a timer off the list and has it called, or ends the check *)
(* (rt_soft_timer_check).                                                  *)
(***************************************************************************)
LEMMA VisitKeeps ==
  ASSUME WakeInv, NEW o, Visit(o), tt \in {"enter", "visit"},
         UNCHANGED <<active, next, sleep>>
  PROVE  WakeInv'
<1>1. list \in Seq(Ops) /\ active \subseteq Ops /\ active # {} /\ sleep = 0
  BY DEF WakeInv, Types, OnList
<1>2. \A p \in active : Pending(p)
  BY DEF WakeInv, OnList, InCall
<1>3. tt' \in {"call", "entry"}
  BY DEF Visit
<1>4. Misled'
  BY <1>3 DEF Misled
<1>5. CASE tt' = "call"
  <2>1. list' = Without(o) /\ t' = o
    BY <1>5 DEF Visit
  <2>2. /\ list' \in Seq(Ops)
        /\ \A i \in DOMAIN list' : Pending(list'[i])
        /\ \A p \in Ops \ {o} : Pending(p) => \E i \in DOMAIN list' : list'[i] = p
    BY <1>1, <2>1, WithoutList
  <2>3. \A p \in Ops : Pending(p)' => Pending(p)
    BY <2>2 DEF Pending
  <2>4. \A p \in Ops \ {o} : Pending(p) => Pending(p)'
    BY <2>2 DEF Pending
  <2>5. Types'
    BY <1>1, <2>2 DEF Types
  <2>6. OnList'
    BY <1>1, <1>2, <1>5, <2>1, <2>3, <2>4 DEF WakeInv, OnList, InCall
  <2> QED BY <1>4, <2>5, <2>6 DEF WakeInv
<1>6. CASE tt' = "entry"
  <2>1. list' = list
    BY <1>6 DEF Visit
  <2>2. \A p \in Ops : Pending(p)' <=> Pending(p)
    BY <2>1 DEF Pending
  <2>3. Types'
    BY <1>1, <2>1 DEF Types
  <2>4. OnList'
    BY <1>1, <1>2, <1>6, <2>2 DEF WakeInv, OnList
  <2> QED BY <1>4, <2>3, <2>4 DEF WakeInv
<1> QED BY <1>3, <1>5, <1>6

(***************************************************************************)
(* Steps that leave the list and the timer being called as they are keep   *)
(* all but what is said about a suspension.                                *)
(***************************************************************************)
LEMMA ListKept ==
  ASSUME WakeInv, UNCHANGED <<list, active, t>>,
         InCall => InCall',
         sleep' # 0 => tt' = "asleep",
         tt = "suspended" => tt' = "suspended"
  PROVE  Types' /\ OnList'
<1>1. \A p \in Ops : Pending(p)' <=> Pending(p)
  BY DEF Pending
<1>2. Types'
  BY DEF WakeInv, Types
<1>3. OnList'
  BY <1>1 DEF WakeInv, OnList, Types
<1> QED BY <1>2, <1>3

(***************************************************************************)
(* The thread reads the first expiry when every started timer is on the    *)
(* list; only RT_TICK_MAX lets it suspend itself.                          *)
(***************************************************************************)
LEMMA NextTimeoutKeeps ==
  ASSUME WakeInv, NextTimeout
  PROVE  WakeInv'
<1>1. Types' /\ OnList'
  BY ListKept DEF NextTimeout, At, listVars, WakeInv, Types, InCall
<1>2. tt = "entry" /\ tt' = "timeout"
  BY DEF NextTimeout, At
<1>3. PICK o \in active : Pending(o)
  BY <1>2 DEF WakeInv, OnList, InCall
<1>4. list # <<>>
  BY <1>3 DEF Pending
<1>5. Misled'
  BY <1>2, <1>4 DEF NextTimeout, Misled
<1> QED BY <1>1, <1>5 DEF WakeInv

(***************************************************************************)
(* Every step keeps the invariant.                                         *)
(***************************************************************************)
LEMMA StepWakeInv == WakeInv /\ [Next]_vars => WakeInv'
<1> SUFFICES ASSUME WakeInv, [Next]_vars PROVE WakeInv'
  OBVIOUS
<1>1. ASSUME NEW o \in Ops, LockOut(o) PROVE WakeInv'
  BY <1>1, LockOutKeeps
<1>2. CASE Again
  BY <1>2, AgainKeeps
<1>3. CASE NextTimeout
  BY <1>3, NextTimeoutKeeps
<1>4. CASE Suspend
  <2>1. Types' /\ OnList'
    BY <1>4, ListKept DEF Suspend, At, listVars, threadVars, WakeInv, Types, InCall
  <2> QED BY <1>4, <2>1 DEF Suspend, At, history, WakeInv, Misled
<1>5. CASE NextTick
  <2>1. Types' /\ OnList'
    BY <1>5, ListKept DEF NextTick, At, listVars, WakeInv, Types, InCall
  <2> QED BY <1>5, <2>1 DEF NextTick, At, WakeInv, Misled
<1>6. CASE Delay
  <2>1. Types' /\ OnList'
    BY <1>6, ListKept DEF Delay, At, listVars, WakeInv, Types, InCall
  <2> QED BY <1>6, <2>1 DEF Delay, At, WakeInv, Misled
<1>7. CASE CurrentTick("check", "enter")
  <2>1. Types' /\ OnList'
    BY <1>7, ListKept DEF CurrentTick, At, listVars, WakeInv, Types, InCall
  <2> QED BY <1>7, <2>1 DEF CurrentTick, At, WakeInv, Misled
<1>8. CASE CurrentTick("called", "again")
  <2>1. Types' /\ OnList'
    BY <1>8, ListKept DEF CurrentTick, At, listVars, WakeInv, Types, InCall
  <2> QED BY <1>8, <2>1 DEF CurrentTick, At, WakeInv, Misled
<1>9. CASE TimeoutFunc
  <2>1. Types' /\ OnList'
    BY <1>9, ListKept DEF TimeoutFunc, At, listVars, threadVars, WakeInv, Types, InCall
  <2> QED BY <1>9, <2>1 DEF TimeoutFunc, At, WakeInv, Misled
<1>10. CASE FirstNode
  <2>1. PICK o : Visit(o)
    BY <1>10 DEF FirstNode
  <2>2. tt = "enter" /\ UNCHANGED <<active, next, sleep>>
    BY <1>10 DEF FirstNode, At
  <2> QED BY <2>1, <2>2, VisitKeeps
<1>11. CASE NextNode
  <2>1. tt = "visit" /\ UNCHANGED <<active, next, sleep>> /\ Visit(n)
    BY <1>11 DEF NextNode
  <2> QED BY <2>1, VisitKeeps
<1>12. CASE Tick
  <2>1. tt' = tt \/ (tt = "asleep" /\ tt' = "check")
    BY <1>12 DEF Tick, WakeInv, Types
  <2>2. sleep' # 0 => tt' = "asleep"
    BY <1>12 DEF Tick, WakeInv, Types
  <2>3. Types' /\ OnList'
    BY <1>12, <2>1, <2>2, ListKept DEF Tick, listVars, threadVars, InCall
  <2> QED BY <1>12, <2>1, <2>3 DEF Tick, listVars, threadVars, WakeInv, Misled
<1>13. CASE TouchSleeps \/ WokenLate \/ UNCHANGED vars
  <2>1. UNCHANGED <<listVars, tt, threadVars, sleep, mistaken>>
    BY <1>13 DEF TouchSleeps, WokenLate, vars, history
  <2>2. Types' /\ OnList'
    BY <2>1, ListKept DEF listVars, threadVars, WakeInv, Types, InCall
  <2> QED BY <2>1, <2>2 DEF listVars, threadVars, WakeInv, Misled
<1> QED BY <1>1, <1>2, <1>3, <1>4, <1>5, <1>6, <1>7, <1>8, <1>9, <1>10, <1>11, <1>12, <1>13
        DEF Next, TimerThread

(***************************************************************************)
(* rt_thread_timer_entry reads the list and suspends itself in two steps;  *)
(* no timer that is started in between is lost, but for the tick that      *)
(* stands for an empty list.                                               *)
(***************************************************************************)
THEOREM NoTimerLost == Spec => []NoLostWakeup
<1>1. WakeInv => NoLostWakeup
  <2> SUFFICES ASSUME WakeInv, Stuck PROVE mistaken
    BY DEF NoLostWakeup
  <2>1. Len(list) > 0 /\ list[1] \in Ops
    BY DEF Stuck, WakeInv, Types
  <2>2. Pending(list[1])
    BY <2>1 DEF Pending, WakeInv, Types, InCall
  <2> QED BY <2>1, <2>2 DEF Stuck, WakeInv, OnList, Misled
<1> QED BY InitWakeInv, StepWakeInv, <1>1, PTL DEF Spec
-----------------------------------------------------------------------------
(***************************************************************************)
(* The order of the list and the service.  The ticks wrap around, so the   *)
(* invariant speaks of a time that does not: TickOf(v, x) says that the    *)
(* tick v is what the time x shows.                                        *)
(***************************************************************************)
TickOf(v, x) == v \in 0 .. W - 1 /\ \E q \in Int : x = v + W * q

LEMMA Widths ==
  /\ W \in Nat /\ Half \in Nat /\ 2 * Half < W /\ RT_TICK_MAX = W - 1
  /\ Period \in Nat /\ Period > 0 /\ MaxLate \in Nat
  /\ 2 * Period + MaxLate < Half
  /\ 2 * Period + 2 * MaxLate <= W - Half
BY SoftTimerAssumption DEF Half, RT_TICK_MAX

\* A number that is less than a turn outside the range of the ticks.
LEMMA ModNear ==
  ASSUME NEW z \in Int
  PROVE  /\ z \in 0 .. W - 1 => z % W = z
         /\ z \in W .. 2 * W - 1 => z % W = z - W
         /\ z \in -W .. -1 => z % W = z + W
BY Widths

\* A multiple of W that is less than two turns.
LEMMA NearMultiple ==
  ASSUME NEW k \in Int, W * k > -2 * W, W * k < 2 * W
  PROVE  k \in {-1, 0, 1}
BY Widths

\* The difference of two ticks, if the times are less than a turn apart.
LEMMA TickMinus ==
  ASSUME NEW a, NEW b, NEW x \in Int, NEW y \in Int,
         TickOf(a, x), TickOf(b, y), x - y > -W, x - y < W
  PROVE  Minus(a, b) = IF x >= y THEN x - y ELSE x - y + W
<1>1. PICK p \in Int : x = a + W * p
  BY DEF TickOf
<1>2. PICK q \in Int : y = b + W * q
  BY DEF TickOf
<1>3. a \in 0 .. W - 1 /\ b \in 0 .. W - 1
  BY DEF TickOf
<1> DEFINE k == p - q
<1>4. k \in Int /\ W * k = W * p - W * q
  BY Widths
<1> HIDE DEF k
<1>5. W * k \in Int /\ a - b = x - y - W * k
  BY Widths, <1>1, <1>2, <1>3, <1>4
<1>6. k \in {-1, 0, 1}
  <2>1. W * k > -2 * W /\ W * k < 2 * W
    <3> DEFINE w == W * k
    <3>1. w \in Int /\ a - b = x - y - w
      BY <1>5
    <3> HIDE DEF w
    <3>2. w > -2 * W /\ w < 2 * W
      BY Widths, <1>3, <3>1
    <3> QED BY <3>2 DEF w
  <2> QED BY <1>4, <2>1, NearMultiple
<1>7. a - b \in {x - y, x - y - W, x - y + W}
  BY Widths, <1>5, <1>6
<1> QED BY Widths, <1>3, <1>7, ModNear DEF Minus

\* A tick some ticks later.
LEMMA TickPlus ==
  ASSUME NEW a, NEW x \in Int, TickOf(a, x), NEW k \in 0 .. W - 1
  PROVE  TickOf((a + k) % W, x + k)
<1>1. PICK p \in Int : x = a + W * p
  BY DEF TickOf
<1>2. a \in 0 .. W - 1
  BY DEF TickOf
<1>3. CASE a + k < W
  <2>1. (a + k) % W = a + k /\ a + k \in 0 .. W - 1
    BY Widths, <1>2, <1>3, ModNear
  <2>2. x + k = (a + k) + W * p
    BY <1>1, <1>2, Widths
  <2> QED BY <2>1, <2>2 DEF TickOf
<1>4. CASE a + k >= W
  <2>1. (a + k) % W = a + k - W /\ a + k - W \in 0 .. W - 1
    BY Widths, <1>2, <1>4, ModNear
  <2>2. x + k = (a + k - W) + W * (p + 1)
    BY <1>1, <1>2, Widths
  <2> QED BY <2>1, <2>2 DEF TickOf
<1> QED BY <1>2, <1>3, <1>4, Widths

(***************************************************************************)
(* T is the time and X the expiry times of the timers on the list: none is *)
(* further away than a period, nor late by more than a dialog and the      *)
(* delay after it.  The list is in their order.                            *)
(***************************************************************************)
InOrder(l, X) ==
  \A i, j \in DOMAIN l : i < j => l[i] # l[j] /\ X[l[i]] <= X[l[j]]

Places(T, X) ==
  /\ TickOf(now, T)
  /\ \A o \in Ops : Pending(o) =>
       TickOf(expiry[o], X[o]) /\ X[o] - T <= Period /\ T - X[o] <= Period + MaxLate
  /\ list \in Seq(Ops) /\ InOrder(list, X)

(***************************************************************************)
(* A delay begins before the first timer is due, and lasts no longer than  *)
(* a period; it may begin late.                                            *)
(***************************************************************************)
Sleeps(T, X) ==
  \A o \in Ops : Pending(o) =>
    /\ tt = "delay" => T - X[o] <= MaxLate
    /\ tt = "asleep" => T + sleep - X[o] <= Period + MaxLate

(***************************************************************************)
(* While the time-out read stays in a local, the timer it was read from    *)
(* may be started again, but only once, as its operation is locked then;   *)
(* the time-out is not older than that allows.                             *)
(***************************************************************************)
NextRead(T, X) ==
  tt = "timeout" /\ next # RT_TICK_MAX =>
    \E N \in Int :
      /\ TickOf(next, N) /\ N - T <= Period
      /\ \A o \in Ops : Pending(o) => N <= X[o]
      /\ \E o \in Ops :
           /\ Pending(o)
           /\ \/ X[o] = N
              \/ lock[o] = 0 /\ X[o] - N <= 2 * Period + MaxLate /\ T - X[o] <= MaxLate

(***************************************************************************)
(* The same of the tick rt_soft_timer_check has read, as long as it may    *)
(* visit another node, which is on the list.                               *)
(***************************************************************************)
Known(T, X, C, o) ==
  /\ Pending(o)
  /\ \/ X[o] - C <= Period /\ (T = C \/ T - X[o] <= MaxLate)
     \/ lock[o] = 0 /\ X[o] - C <= 2 * Period + MaxLate

CurRead(T, X) ==
  tt \in {"enter", "again", "visit"} =>
    \E C \in Int :
      /\ C <= T /\ TickOf(cur, C)
      /\ tt = "enter" => \E o \in Ops : Known(T, X, C, o)
      /\ tt \in {"again", "visit"} /\ n # NoOp => Known(T, X, C, n)

(***************************************************************************)
(* The lock-out and the timer of an operation began together, unless it    *)
(* was locked in the window.                                               *)
(***************************************************************************)
Locks(T, X) ==
  \A o \in Ops : lock[o] = 0 /\ Pending(o) =>
    since[o] = Period \/ since[o] >= T + Period - X[o]

Times(T, X) ==
  Places(T, X) /\ Sleeps(T, X) /\ NextRead(T, X) /\ CurRead(T, X) /\ Locks(T, X)

(***************************************************************************)
(* The timer being called, and the node to be visited after it.            *)
(***************************************************************************)
CallInv ==
  /\ InCall => t \in active
  /\ n # NoOp => Pending(n) /\ n # t
  /\ tt = "call" /\ lock[t] = 0 => since[t] = Period \/ t \in raced

TimeInv ==
  /\ WakeInv /\ TypeOK /\ CallInv
  /\ tt = "delay" => next <= Period
  /\ \E T \in Int, X \in [Ops -> Int] : Times(T, X)
-----------------------------------------------------------------------------
(***************************************************************************)
(* What the code computes of ticks, told in times.                         *)
(***************************************************************************)

\* A timer is late (only the model asks).
LEMMA LateIs ==
  ASSUME NEW T \in Int, NEW X \in [Ops -> Int], Places(T, X), NEW o \in Ops, Pending(o)
  PROVE  Late(o) <=> T - X[o] >= MaxLate
<1>1. /\ TickOf(now, T) /\ TickOf(expiry[o], X[o])
      /\ X[o] - T <= Period /\ T - X[o] <= Period + MaxLate
  BY DEF Places
<1>2. X[o] \in Int
  OBVIOUS
<1>3. Minus(now, expiry[o]) = IF T >= X[o] THEN T - X[o] ELSE T - X[o] + W
  BY <1>1, <1>2, TickMinus, Widths
<1> QED BY <1>1, <1>2, <1>3, Widths DEF Late

\* A timer is due (rt_soft_timer_check).
LEMMA DueIs ==
  ASSUME NEW T \in Int, NEW X \in [Ops -> Int], Places(T, X), NEW o \in Ops, Pending(o),
         NEW C \in Int, TickOf(cur, C), C <= T, X[o] - C <= 2 * Period + MaxLate
  PROVE  Due(expiry[o]) <=> X[o] <= C
<1>1. TickOf(expiry[o], X[o]) /\ T - X[o] <= Period + MaxLate /\ X[o] \in Int
  BY DEF Places
<1>2. Minus(cur, expiry[o]) = IF C >= X[o] THEN C - X[o] ELSE C - X[o] + W
  BY <1>1, TickMinus, Widths
<1> QED BY <1>1, <1>2, Widths DEF Due

\* A timer started now expires after all others, so it goes to the end.
LEMMA PlaceIsLast ==
  ASSUME NEW T \in Int, NEW X \in [Ops -> Int], Places(T, X),
         NEW l \in Seq(Ops), \A i \in DOMAIN l : Pending(l[i])
  PROVE  Place(l, (now + Period) % W) = Len(l) + 1
<1> DEFINE e == (now + Period) % W
           After(i) == Minus(expiry[l[i]], e) \in 1 .. Half - 1
           Passed == {i \in DOMAIN l : \A j \in 1 .. i : ~ After(j)}
<1>1. TickOf(e, T + Period)
  BY TickPlus, Widths DEF Places
<1>2. ASSUME NEW i \in DOMAIN l
      PROVE  ~ After(i)
  <2> DEFINE o == l[i]
  <2>1. o \in Ops /\ Pending(o)
    OBVIOUS
  <2> HIDE DEF o
  <2>2. /\ TickOf(expiry[o], X[o]) /\ X[o] \in Int
        /\ X[o] - T <= Period /\ T - X[o] <= Period + MaxLate
    BY <2>1 DEF Places
  <2> HIDE DEF e
  <2>3. Minus(expiry[o], e) = IF X[o] >= T + Period THEN X[o] - (T + Period)
                              ELSE X[o] - (T + Period) + W
    BY <1>1, <2>2, TickMinus, Widths
  <2> QED BY <2>2, <2>3, Widths DEF o
<1> HIDE DEF After
<1>3. Passed = 1 .. Len(l)
  BY <1>2
<1>4. Cardinality(1 .. Len(l)) = Len(l)
  <2> DEFINE k == Len(l)
  <2>1. k \in Nat
    OBVIOUS
  <2> HIDE DEF k
  <2>2. Cardinality(1 .. k) = IF 1 > k THEN 0 ELSE k - 1 + 1
    BY <2>1, FS_Interval
  <2> QED BY <2>1, <2>2 DEF k
<1> HIDE DEF Passed, e
<1>5. Place(l, e) = Cardinality(Passed) + 1
  BY DEF Place, Passed, After
<1> QED BY <1>3, <1>4, <1>5 DEF e
-----------------------------------------------------------------------------
(***************************************************************************)
(* What happens to the list.                                               *)
(***************************************************************************)

\* Without a timer it is in order.
LEMMA WithoutInOrder ==
  ASSUME list \in Seq(Ops), NEW X, InOrder(list, X), NEW o \in Ops
  PROVE  InOrder(Without(o), X) /\ \A i \in DOMAIN Without(o) : Without(o)[i] # o
<1>1. CASE ~ Pending(o)
  BY <1>1 DEF Without, Pending
<1>2. CASE Pending(o)
  <2> DEFINE k == Position(o)  r == Without(o)
             src(i) == IF i < k THEN i ELSE i + 1
  <2>1. /\ k \in 1 .. Len(list) /\ list[k] = o
        /\ r \in Seq(Ops) /\ Len(r) = Len(list) - 1
        /\ \A i \in 1 .. k - 1 : r[i] = list[i]
        /\ \A i \in k .. Len(list) - 1 : r[i] = list[i + 1]
    BY <1>2, Removed
  <2> HIDE DEF k, r
  <2>2. DOMAIN r = 1 .. Len(list) - 1 /\ DOMAIN list = 1 .. Len(list) /\ Len(list) \in Nat
    BY <2>1
  <2>3. \A i \in DOMAIN r : r[i] = list[src(i)] /\ src(i) \in DOMAIN list /\ src(i) # k
    BY <2>1, <2>2
  <2>4. \A i, j \in DOMAIN r : i < j => src(i) < src(j)
    BY <2>1, <2>2
  <2> HIDE DEF src
  <2>5. InOrder(r, X)
    BY <2>3, <2>4 DEF InOrder
  <2>6. ASSUME NEW i \in DOMAIN r
        PROVE  r[i] # o
    <3>1. src(i) \in 1 .. Len(list) /\ src(i) # k /\ r[i] = list[src(i)]
      BY <2>2, <2>3
    <3>2. src(i) < k \/ k < src(i)
      BY <2>1, <3>1
    <3> QED BY <2>1, <2>2, <3>1, <3>2 DEF InOrder
  <2> QED BY <2>5, <2>6 DEF r
<1> QED BY <1>1, <1>2

\* A timer that is started now is the last one on it.
LEMMA RestartPlaces ==
  ASSUME NEW T \in Int, NEW X \in [Ops -> Int], Places(T, X), NEW o \in Ops,
         expiry \in [Ops -> 0 .. RT_TICK_MAX],
         list' = Started(o).list, expiry' = Started(o).expiry, now' = now
  PROVE  /\ Places(T, [X EXCEPT ![o] = T + Period])'
         /\ \A p \in Ops : Pending(p)' <=> Pending(p) \/ p = o
<1> DEFINE e == (now + Period) % W  l == Without(o)  Y == [X EXCEPT ![o] = T + Period]
<1>1. list \in Seq(Ops) /\ InOrder(list, X)
  BY DEF Places
<1>2. \A p \in Ops : Pending(p)' <=> Pending(p) \/ p = o
  BY <1>1, StartedList
<1>3. /\ l \in Seq(Ops) /\ InOrder(l, X)
      /\ \A i \in DOMAIN l : l[i] \in Ops /\ Pending(l[i]) /\ l[i] # o
  BY <1>1, WithoutList, WithoutInOrder
<1>4. list' = InsertAt(l, Len(l) + 1, o)
  BY <1>3, PlaceIsLast DEF Started
<1>5. expiry' = [expiry EXCEPT ![o] = e]
  BY DEF Started
<1>6. TickOf(e, T + Period)
  BY TickPlus, Widths DEF Places
<1> HIDE DEF e, l
<1>7. /\ list' \in Seq(Ops) /\ Len(list') = Len(l) + 1 /\ Len(l) \in Nat
      /\ list'[Len(l) + 1] = o
      /\ \A i \in 1 .. Len(l) : list'[i] = l[i]
  <2> DEFINE k == Len(l) + 1  r == InsertAt(l, k, o)
  <2>1. l \in Seq(Ops) /\ Len(l) \in Nat
    BY <1>3
  <2>2. k \in 1 .. Len(l) + 1 /\ k - 1 = Len(l)
    BY <2>1
  <2>3. list' = r
    BY <1>4
  <2> HIDE DEF k
  <2>4. /\ r \in Seq(Ops) /\ Len(r) = Len(l) + 1
        /\ r[k] = o
        /\ \A i \in 1 .. k - 1 : r[i] = l[i]
    <3>1. l \in Seq(Ops) /\ k \in 1 .. Len(l) + 1
      BY <2>1, <2>2
    <3> QED BY <3>1, Inserted
  <2> HIDE DEF r
  <2> QED BY <2>1, <2>2, <2>3, <2>4 DEF k
<1>8. Y \in [Ops -> Int] /\ Y[o] = T + Period /\ \A p \in Ops : p # o => Y[p] = X[p]
  BY Widths
<1> HIDE DEF Y
<1>9. InOrder(list', Y)
  <2>1. DOMAIN l = 1 .. Len(l) /\ DOMAIN list' = 1 .. Len(l) + 1
    BY <1>3, <1>7
  <2>2. ASSUME NEW i \in DOMAIN l
        PROVE  /\ list'[i] = l[i] /\ Y[l[i]] = X[l[i]]
               /\ l[i] # o /\ X[l[i]] \in Int /\ X[l[i]] <= T + Period
    <3> DEFINE p == l[i]
    <3>1. p \in Ops /\ Pending(p) /\ p # o
      BY <1>3
    <3>2. list'[i] = p
      BY <1>7, <2>1
    <3> HIDE DEF p
    <3>3. Y[p] = X[p] /\ X[p] \in Int /\ X[p] - T <= Period
      BY <1>8, <3>1 DEF Places
    <3> QED BY <3>1, <3>2, <3>3, Widths DEF p
  <2>3. ASSUME NEW i \in DOMAIN list', NEW j \in DOMAIN list', i < j
        PROVE  list'[i] # list'[j] /\ Y[list'[i]] <= Y[list'[j]]
    <3>1. i \in DOMAIN l /\ (j \in DOMAIN l \/ j = Len(l) + 1)
      BY <1>7, <2>1, <2>3
    <3>2. CASE j \in DOMAIN l
      <4>1. l[i] # l[j] /\ X[l[i]] <= X[l[j]]
        BY <1>3, <2>3, <3>1, <3>2 DEF InOrder
      <4> QED BY <2>2, <3>1, <3>2, <4>1
    <3>3. CASE j = Len(l) + 1
      <4>1. list'[j] = o /\ Y[list'[j]] = T + Period
        BY <1>7, <1>8, <3>3
      <4> QED BY <2>2, <3>1, <4>1
    <3> QED BY <3>1, <3>2, <3>3
  <2> QED BY <2>3 DEF InOrder
<1>10. ASSUME NEW p \in Ops, Pending(p)'
       PROVE  TickOf(expiry'[p], Y[p]) /\ Y[p] - T <= Period /\ T - Y[p] <= Period + MaxLate
  <2>1. CASE p = o
    BY <1>5, <1>6, <1>8, <2>1, Widths
  <2>2. CASE p # o
    BY <1>2, <1>5, <1>8, <1>10, <2>2 DEF Places
  <2> QED BY <2>1, <2>2
<1> QED BY <1>2, <1>7, <1>9, <1>10 DEF Places, Y

\* A visit takes the timer it visits off the list; the one behind it is still on it.
LEMMA VisitPlaces ==
  ASSUME NEW T \in Int, NEW X \in [Ops -> Int], Places(T, X), NEW o \in Ops, Pending(o),
         list' = Without(o), UNCHANGED <<now, expiry>>
  PROVE  /\ Places(T, X)'
         /\ \A p \in Ops : Pending(p)' <=> Pending(p) /\ p # o
         /\ NodeAfter(o) # NoOp => \E p \in Ops \ {o} : p = NodeAfter(o) /\ Pending(p)'
<1>1. list \in Seq(Ops) /\ InOrder(list, X)
  BY DEF Places
<1>2. /\ list' \in Seq(Ops) /\ InOrder(list', X)
      /\ \A i \in DOMAIN list' : Pending(list'[i]) /\ list'[i] # o
      /\ \A p \in Ops \ {o} : Pending(p) => \E i \in DOMAIN list' : list'[i] = p
  BY <1>1, WithoutList, WithoutInOrder
<1>3. \A p \in Ops : Pending(p)' <=> Pending(p) /\ p # o
  BY <1>2 DEF Pending
<1>4. ASSUME NodeAfter(o) # NoOp
      PROVE  NodeAfter(o) \in Ops \ {o} /\ Pending(NodeAfter(o))
  <2> DEFINE k == Position(o)
  <2>1. k \in 1 .. Len(list) /\ list[k] = o
    BY <1>1, Removed
  <2> HIDE DEF k
  <2>2. o # Last(list) /\ NodeAfter(o) = list[k + 1]
    BY <1>4 DEF NodeAfter, k
  <2>3. k # Len(list)
    BY <2>1, <2>2 DEF Last
  <2>4. k + 1 \in DOMAIN list /\ k \in DOMAIN list /\ k < k + 1
    BY <1>1, <2>1, <2>3
  <2> QED BY <1>1, <2>1, <2>2, <2>4 DEF InOrder, Pending
<1>5. Places(T, X)'
  <2>1. \A p \in Ops : Pending(p)' =>
          /\ TickOf(expiry'[p], X[p])
          /\ X[p] - T <= Period /\ T - X[p] <= Period + MaxLate
    BY <1>3 DEF Places
  <2>2. TickOf(now', T)
    BY DEF Places
  <2> QED BY <1>2, <2>1, <2>2 DEF Places
<1> QED BY <1>3, <1>4, <1>5
-----------------------------------------------------------------------------
\* The first timer on the list expires first.
LEMMA HeadFirst ==
  ASSUME NEW T, NEW X \in [Ops -> Int], Places(T, X), NEW o \in Ops, Pending(o)
  PROVE  /\ list # <<>> /\ Head(list) \in Ops /\ Pending(Head(list))
         /\ X[Head(list)] <= X[o]
<1>1. list \in Seq(Ops) /\ InOrder(list, X)
  BY DEF Places
<1>2. PICK i \in 1 .. Len(list) : list[i] = o
  BY <1>1 DEF Pending
<1>3. Len(list) >= 1 /\ list # <<>> /\ Head(list) = list[1] /\ list[1] \in Ops
  BY <1>1, <1>2
<1>4. Pending(Head(list))
  BY <1>1, <1>3 DEF Pending
<1>5. X[Head(list)] <= X[o]
  <2> DEFINE h == Head(list)
  <2>1. h = list[1] /\ h \in Ops
    BY <1>3
  <2> HIDE DEF h
  <2>2. CASE i = 1
    BY <1>2, <2>1, <2>2
  <2>3. CASE i > 1
    <3>1. 1 \in DOMAIN list /\ i \in DOMAIN list
      BY <1>1, <1>2, <1>3
    <3> QED BY <1>1, <1>2, <2>1, <2>3, <3>1 DEF InOrder
  <2> QED BY <1>2, <2>2, <2>3 DEF h
<1> QED BY <1>3, <1>4, <1>5

(***************************************************************************)
(* A timer is taken off the list when it is due, even if the tick it is    *)
(* compared with is an old one by now.                                     *)
(***************************************************************************)
LEMMA CalledWhenDue ==
  ASSUME WakeInv, TypeOK, CallInv, NEW T \in Int, NEW X \in [Ops -> Int], Times(T, X),
         FirstNode \/ NextNode, tt' = "call"
  PROVE  /\ t' \in Ops /\ Pending(t') /\ X[t'] <= T
         /\ list' = Without(t') /\ n' = NodeAfter(t') /\ tt \in {"enter", "visit"}
<1> DEFINE o == IF FirstNode THEN IF list = <<>> THEN NoOp ELSE Head(list) ELSE n
<1>1. Visit(o) /\ tt = (IF FirstNode THEN "enter" ELSE "visit")
  BY DEF FirstNode, NextNode, At
<1>2. /\ o # NoOp /\ Due(expiry[o])
      /\ t' = o /\ n' = NodeAfter(o) /\ list' = Without(o)
  BY <1>1 DEF Visit
<1>3. PICK C \in Int :
        /\ C <= T /\ TickOf(cur, C)
        /\ tt = "enter" => \E p \in Ops : Known(T, X, C, p)
        /\ tt \in {"again", "visit"} /\ n # NoOp => Known(T, X, C, n)
  BY <1>1 DEF Times, CurRead
<1>4. o \in Ops /\ Pending(o) /\ X[o] - C <= 2 * Period + MaxLate
  <2>1. CASE FirstNode
    <3>1. PICK p \in Ops : Known(T, X, C, p)
      BY <1>1, <1>3, <2>1
    <3>2. X[p] - C <= 2 * Period + MaxLate /\ Pending(p) /\ X[p] \in Int
      BY <3>1, Widths DEF Known
    <3>3. /\ list # <<>> /\ Head(list) \in Ops /\ Pending(Head(list))
          /\ X[Head(list)] <= X[p]
      BY <3>2, HeadFirst DEF Times
    <3>4. X[Head(list)] \in Int
      BY <3>3
    <3>5. o = Head(list)
      BY <2>1, <3>3
    <3> HIDE DEF o
    <3> QED BY <3>2, <3>3, <3>4, <3>5, Widths
  <2>2. CASE ~ FirstNode
    <3>1. o = n /\ Known(T, X, C, n) /\ n \in Ops
      BY <1>1, <1>2, <1>3, <2>2 DEF TypeOK
    <3>2. X[n] \in Int
      BY <3>1
    <3> HIDE DEF o
    <3> QED BY <3>1, <3>2, Widths DEF Known
  <2> QED BY <2>1, <2>2
<1> HIDE DEF o
<1>5. X[o] <= C
  BY <1>2, <1>3, <1>4, DueIs DEF Times
<1>6. X[o] \in Int
  BY <1>4
<1> QED BY <1>1, <1>2, <1>3, <1>4, <1>5, <1>6

\* Steps that leave clock and list alone.
LEMMA SamePlaces ==
  ASSUME UNCHANGED <<now, list, expiry>>
  PROVE  /\ \A o \in Ops : Pending(o)' <=> Pending(o)
         /\ \A T \in Int : \A X \in [Ops -> Int] : Places(T, X) => Places(T, X)'
<1>1. \A o \in Ops : Pending(o)' <=> Pending(o)
  BY DEF Pending
<1> QED BY <1>1 DEF Places

(***************************************************************************)
(* The times after each step.                                              *)
(***************************************************************************)
LEMMA LockOutTimes ==
  ASSUME TypeOK, NEW T \in Int, NEW X \in [Ops -> Int], Times(T, X),
         NEW o \in Ops, LockOut(o)
  PROVE  Times(T, [X EXCEPT ![o] = T + Period])'
<1> DEFINE Y == [X EXCEPT ![o] = T + Period]
<1>1. /\ lock[o] = 1 /\ lock' = [lock EXCEPT ![o] = 0] /\ since' = [since EXCEPT ![o] = 0]
      /\ UNCHANGED <<now, next, cur, n>>
  BY DEF LockOut, threadVars
<1>2. /\ Places(T, Y)'
      /\ \A p \in Ops : Pending(p)' <=> Pending(p) \/ p = o
  BY RestartPlaces DEF LockOut, Times, TypeOK
<1>3. (tt' = tt /\ tt # "asleep") \/ tt' = "check"
  BY DEF LockOut, Resume
<1>4. /\ Y \in [Ops -> Int] /\ Y[o] = T + Period /\ X[o] \in Int
      /\ \A p \in Ops : p # o => Y[p] = X[p]
  BY Widths
<1> HIDE DEF Y
<1>5. /\ \A p \in Ops : p # o => lock'[p] = lock[p] /\ since'[p] = since[p]
      /\ lock'[o] = 0 /\ since'[o] = 0
  BY <1>1 DEF TypeOK
<1>6. Sleeps(T, Y)'
  <2> SUFFICES ASSUME NEW p \in Ops, Pending(p)', tt' = "delay"
               PROVE  T - Y[p] <= MaxLate
    BY <1>3 DEF Sleeps
  <2>1. CASE p = o
    BY <1>4, <2>1, Widths
  <2>2. CASE p # o
    BY <1>2, <1>3, <1>4, <2>2 DEF Times, Sleeps
  <2> QED BY <2>1, <2>2
<1>7. NextRead(T, Y)'
  <2> SUFFICES ASSUME tt' = "timeout", next' # RT_TICK_MAX
               PROVE  NextRead(T, Y)'
    BY DEF NextRead
  <2>1. PICK N \in Int :
          /\ TickOf(next, N) /\ N - T <= Period
          /\ \A p \in Ops : Pending(p) => N <= X[p]
          /\ \E p \in Ops :
               /\ Pending(p)
               /\ \/ X[p] = N
                  \/ lock[p] = 0 /\ X[p] - N <= 2 * Period + MaxLate /\ T - X[p] <= MaxLate
    BY <1>1, <1>3 DEF Times, NextRead
  <2>2. \A p \in Ops : Pending(p)' => N <= Y[p]
    BY <1>2, <1>4, <2>1, Widths
  <2>3. PICK w \in Ops :
          /\ Pending(w)
          /\ \/ X[w] = N
             \/ lock[w] = 0 /\ X[w] - N <= 2 * Period + MaxLate /\ T - X[w] <= MaxLate
    BY <2>1
  <2>4. CASE w = o
    <3>1. X[o] = N /\ T - X[o] <= Period + MaxLate
      BY <1>1, <2>3, <2>4 DEF Times, Places
    <3>2. lock'[o] = 0 /\ Y[o] - N <= 2 * Period + MaxLate /\ T - Y[o] <= MaxLate
      BY <1>4, <1>5, <3>1, Widths
    <3> QED BY <1>1, <1>2, <2>1, <2>2, <3>2 DEF NextRead
  <2>5. CASE w # o
    BY <1>1, <1>2, <1>4, <1>5, <2>1, <2>2, <2>3, <2>5 DEF NextRead
  <2> QED BY <2>4, <2>5
<1>8. ASSUME NEW C \in Int, C <= T, NEW w \in Ops, Known(T, X, C, w)
      PROVE  Known(T, Y, C, w)'
  <2>1. CASE w = o
    <3>1. X[o] - C <= Period /\ (T = C \/ T - X[o] <= MaxLate)
      BY <1>1, <1>8, <2>1 DEF Known
    <3>2. Y[o] - C <= 2 * Period + MaxLate
      BY <1>4, <3>1, Widths
    <3> QED BY <1>2, <1>5, <2>1, <3>2 DEF Known
  <2>2. CASE w # o
    BY <1>2, <1>4, <1>5, <1>8, <2>2 DEF Known
  <2> QED BY <2>1, <2>2
<1>9. CurRead(T, Y)'
  <2> SUFFICES ASSUME tt' \in {"enter", "again", "visit"}
               PROVE  CurRead(T, Y)'
    BY DEF CurRead
  <2>1. PICK C \in Int :
          /\ C <= T /\ TickOf(cur, C)
          /\ tt = "enter" => \E p \in Ops : Known(T, X, C, p)
          /\ tt \in {"again", "visit"} /\ n # NoOp => Known(T, X, C, n)
    BY <1>3 DEF Times, CurRead
  <2>2. tt' = "enter" => \E p \in Ops : Known(T, Y, C, p)'
    BY <1>3, <1>8, <2>1
  <2>3. tt' \in {"again", "visit"} /\ n' # NoOp => Known(T, Y, C, n)'
    BY <1>1, <1>3, <1>8, <2>1 DEF TypeOK
  <2> QED BY <1>1, <2>1, <2>2, <2>3 DEF CurRead, Known
<1>10. Locks(T, Y)'
  <2> SUFFICES ASSUME NEW p \in Ops, lock'[p] = 0, Pending(p)'
               PROVE  since'[p] = Period \/ since'[p] >= T + Period - Y[p]
    BY DEF Locks
  <2>1. CASE p = o
    BY <1>4, <1>5, <2>1, Widths
  <2>2. CASE p # o
    BY <1>2, <1>4, <1>5, <2>2 DEF Times, Locks
  <2> QED BY <2>1, <2>2
<1> QED BY <1>2, <1>6, <1>7, <1>9, <1>10 DEF Times, Y

LEMMA AgainTimes ==
  ASSUME TypeOK, CallInv, NEW T \in Int, NEW X \in [Ops -> Int], Times(T, X),
         Again, NEW o \in Ops, o = t
  PROVE  Times(T, [X EXCEPT ![o] = T + Period])'
<1> DEFINE Y == [X EXCEPT ![o] = T + Period]
<1>1. /\ tt = "again" /\ tt' = "visit" /\ o \in active
      /\ UNCHANGED <<now, next, cur, n, lock, since>>
  BY DEF Again, At, history, CallInv, InCall
<1>2. list' = Started(o).list /\ expiry' = Started(o).expiry
  BY <1>1 DEF Again
<1>3. /\ Places(T, Y)'
      /\ \A p \in Ops : Pending(p)' <=> Pending(p) \/ p = o
  <2>1. Places(T, X) /\ expiry \in [Ops -> 0 .. RT_TICK_MAX]
    BY DEF Times, TypeOK
  <2> QED BY <1>1, <1>2, <2>1, RestartPlaces
<1>4. Y \in [Ops -> Int] /\ Y[o] = T + Period /\ \A p \in Ops : p # o => Y[p] = X[p]
  BY Widths
<1> HIDE DEF Y
<1>5. Sleeps(T, Y)' /\ NextRead(T, Y)'
  BY <1>1 DEF Sleeps, NextRead
<1>6. CurRead(T, Y)'
  <2>1. PICK C \in Int : C <= T /\ TickOf(cur, C) /\ (n # NoOp => Known(T, X, C, n))
    BY <1>1 DEF Times, CurRead
  <2>2. n # NoOp => Known(T, Y, C, n)'
    <3> SUFFICES ASSUME n # NoOp PROVE Known(T, Y, C, n)'
      OBVIOUS
    <3>1. n # o /\ n \in Ops
      BY DEF CallInv, TypeOK
    <3>2. Pending(n)' /\ Y[n] = X[n] /\ lock'[n] = lock[n] /\ n' = n
      BY <1>1, <1>3, <1>4, <2>1, <3>1 DEF Known
    <3> QED BY <2>1, <3>2 DEF Known
  <2> QED BY <1>1, <2>1, <2>2 DEF CurRead, Known
<1>7. Locks(T, Y)'
  <2> SUFFICES ASSUME NEW p \in Ops, lock[p] = 0, Pending(p)'
               PROVE  since[p] = Period \/ since[p] >= T + Period - Y[p]
    BY <1>1 DEF Locks
  <2>1. CASE p = o
    BY <1>4, <2>1, Widths DEF TypeOK
  <2>2. CASE p # o
    BY <1>3, <1>4, <2>2 DEF Times, Locks
  <2> QED BY <2>1, <2>2
<1> QED BY <1>3, <1>5, <1>6, <1>7 DEF Times, Y

LEMMA VisitTimes ==
  ASSUME WakeInv, TypeOK, CallInv, NEW T \in Int, NEW X \in [Ops -> Int], Times(T, X),
         FirstNode \/ NextNode
  PROVE  Times(T, X)'
<1>1. UNCHANGED <<now, expiry, lock, since>> /\ tt' \in {"call", "entry"}
  BY DEF FirstNode, NextNode, Visit, history
<1>2. Places(T, X)' /\ \A p \in Ops : Pending(p)' => Pending(p)
  <2>1. CASE tt' = "call"
    BY <1>1, <2>1, CalledWhenDue, VisitPlaces DEF Times
  <2>2. CASE tt' = "entry"
    <3>1. list' = list
      BY <2>2 DEF FirstNode, NextNode, Visit
    <3> QED BY <1>1, <3>1, SamePlaces DEF Times
  <2> QED BY <1>1, <2>1, <2>2
<1>3. Sleeps(T, X)' /\ NextRead(T, X)' /\ CurRead(T, X)'
  BY <1>1 DEF Sleeps, NextRead, CurRead
<1>4. Locks(T, X)'
  BY <1>1, <1>2 DEF Times, Locks
<1> QED BY <1>2, <1>3, <1>4 DEF Times
LEMMA TickTimes ==
  ASSUME TypeOK, NEW T \in Int, NEW X \in [Ops -> Int], Times(T, X), Tick
  PROVE  Times(T + 1, X)'
<1>1. /\ now' = (now + 1) % W
      /\ sleep' = IF sleep > 0 THEN sleep - 1 ELSE 0
      /\ tt' = IF sleep = 1 THEN "check" ELSE tt
      /\ UNCHANGED <<list, expiry, next, cur, n, lock>>
      /\ since' = [o \in Ops |-> IF since[o] < Period THEN since[o] + 1 ELSE since[o]]
  BY DEF Tick, listVars, threadVars
<1>2. sleep \in Nat /\ (sleep > 0 <=> tt = "asleep")
  BY Widths DEF TypeOK
<1>3. /\ \A o \in Ops : Pending(o)' <=> Pending(o)
      /\ \A o \in Ops : X[o] \in Int
  BY <1>1 DEF Pending
<1>4. ASSUME tt # "asleep"
      PROVE  \A o \in Ops : Pending(o) => T + 1 - X[o] <= MaxLate
  <2>1. \A o \in Ops : ~ Late(o)
    BY <1>2, <1>4 DEF Tick
  <2>2. \A o \in Ops : Pending(o) => T - X[o] < MaxLate
    BY <1>3, <2>1, LateIs, Widths DEF Times
  <2> QED BY <1>3, <2>2, Widths
<1>5. \A o \in Ops : Pending(o) =>
        /\ tt = "asleep" => T + 1 - X[o] + (sleep - 1) <= Period + MaxLate
        /\ T + 1 - X[o] <= Period + MaxLate
  BY <1>2, <1>3, <1>4, Widths DEF Times, Sleeps
<1>6. Places(T + 1, X)'
  <2>1. TickOf(now', T + 1)
    BY <1>1, TickPlus, Widths DEF Times, Places
  <2>2. \A o \in Ops : Pending(o)' =>
          /\ TickOf(expiry'[o], X[o])
          /\ X[o] - (T + 1) <= Period /\ (T + 1) - X[o] <= Period + MaxLate
    BY <1>1, <1>3, <1>5, Widths DEF Times, Places
  <2> QED BY <1>1, <2>1, <2>2 DEF Times, Places
<1>7. Sleeps(T + 1, X)'
  <2> SUFFICES ASSUME NEW o \in Ops, Pending(o)'
               PROVE  /\ tt' = "delay" => (T + 1) - X[o] <= MaxLate
                      /\ tt' = "asleep" => (T + 1) + sleep' - X[o] <= Period + MaxLate
    BY DEF Sleeps
  <2>1. tt' = "delay" => (T + 1) - X[o] <= MaxLate
    BY <1>1, <1>3, <1>4
  <2>2. tt' = "asleep" => (T + 1) + sleep' - X[o] <= Period + MaxLate
    BY <1>1, <1>2, <1>3, <1>5, Widths
  <2> QED BY <2>1, <2>2
<1>8. NextRead(T + 1, X)'
  <2> SUFFICES ASSUME tt' = "timeout", next' # RT_TICK_MAX
               PROVE  NextRead(T + 1, X)'
    BY DEF NextRead
  <2>1. tt = "timeout"
    BY <1>1, <1>2
  <2>2. PICK N \in Int :
          /\ TickOf(next, N) /\ N - T <= Period
          /\ \A p \in Ops : Pending(p) => N <= X[p]
          /\ \E p \in Ops :
               /\ Pending(p)
               /\ \/ X[p] = N
                  \/ lock[p] = 0 /\ X[p] - N <= 2 * Period + MaxLate /\ T - X[p] <= MaxLate
    BY <1>1, <2>1 DEF Times, NextRead
  <2>3. PICK w \in Ops :
          /\ Pending(w)
          /\ \/ X[w] = N
             \/ lock[w] = 0 /\ X[w] - N <= 2 * Period + MaxLate /\ T - X[w] <= MaxLate
    BY <2>2
  <2>4. (T + 1) - X[w] <= MaxLate
    BY <1>4, <2>1, <2>3
  <2>5. N - (T + 1) <= Period
    BY <2>2, Widths
  <2> QED BY <1>1, <1>3, <2>2, <2>3, <2>4, <2>5 DEF NextRead
<1>9. CurRead(T + 1, X)'
  <2> SUFFICES ASSUME tt' \in {"enter", "again", "visit"}
               PROVE  CurRead(T + 1, X)'
    BY DEF CurRead
  <2>1. tt = tt' /\ tt # "asleep"
    BY <1>1, <1>2
  <2>2. PICK C \in Int :
          /\ C <= T /\ TickOf(cur, C)
          /\ tt = "enter" => \E p \in Ops : Known(T, X, C, p)
          /\ tt \in {"again", "visit"} /\ n # NoOp => Known(T, X, C, n)
    BY <2>1 DEF Times, CurRead
  <2>3. ASSUME NEW p \in Ops, Known(T, X, C, p)
        PROVE  Known(T + 1, X, C, p)'
    BY <1>1, <1>3, <1>4, <2>1, <2>3 DEF Known
  <2>4. C <= T + 1
    BY <2>2
  <2>5. tt' \in {"again", "visit"} /\ n' # NoOp => Known(T + 1, X, C, n)'
    BY <1>1, <2>1, <2>2, <2>3 DEF TypeOK
  <2> QED BY <1>1, <2>1, <2>2, <2>3, <2>4, <2>5 DEF CurRead, Known
<1>10. Locks(T + 1, X)'
  <2> SUFFICES ASSUME NEW o \in Ops, lock'[o] = 0, Pending(o)'
               PROVE  since'[o] = Period \/ since'[o] >= (T + 1) + Period - X[o]
    BY DEF Locks
  <2>1. since[o] \in 0 .. Period /\ (since[o] = Period \/ since[o] >= T + Period - X[o])
    BY <1>1, <1>3 DEF Times, Locks, TypeOK
  <2> QED BY <1>1, <1>3, <2>1, Widths
<1> QED BY <1>6, <1>7, <1>8, <1>9, <1>10 DEF Times

\* The time-out read is that of the first timer; RT_TICK_MAX is not compared with the tick.
LEMMA NextTimeoutTimes ==
  ASSUME TypeOK, NEW T \in Int, NEW X \in [Ops -> Int], Times(T, X), NextTimeout
  PROVE  Times(T, X)'
<1>1. /\ tt = "entry" /\ tt' = "timeout" /\ UNCHANGED <<now, list, expiry, lock, since>>
      /\ next' = IF list = <<>> THEN RT_TICK_MAX ELSE expiry[Head(list)]
  BY DEF NextTimeout, At, listVars
<1>2. Places(T, X)' /\ \A o \in Ops : Pending(o)' <=> Pending(o)
  BY <1>1, SamePlaces DEF Times
<1>3. NextRead(T, X)'
  <2> SUFFICES ASSUME next' # RT_TICK_MAX PROVE NextRead(T, X)'
    BY DEF NextRead
  <2> DEFINE h == Head(list)
  <2>1. list \in Seq(Ops) /\ list # <<>> /\ next' = expiry[h]
    BY <1>1 DEF TypeOK
  <2>2. h \in Ops /\ Pending(h)
    BY <2>1 DEF Pending
  <2>3. \A o \in Ops : Pending(o) => X[h] <= X[o]
    BY HeadFirst DEF Times
  <2>4. TickOf(next', X[h]) /\ X[h] - T <= Period /\ X[h] \in Int
    BY <2>1, <2>2 DEF Times, Places
  <2> HIDE DEF h
  <2> QED BY <1>2, <2>2, <2>3, <2>4 DEF NextRead
<1>4. Sleeps(T, X)' /\ CurRead(T, X)'
  BY <1>1 DEF Sleeps, CurRead
<1>5. Locks(T, X)'
  BY <1>1, <1>2 DEF Times, Locks
<1> QED BY <1>2, <1>3, <1>4, <1>5 DEF Times

\* The delay reckoned from it is no longer than a period, and no timer is due before.
LEMMA NextTickTimes ==
  ASSUME TypeOK, NEW T \in Int, NEW X \in [Ops -> Int], Times(T, X), NextTick
  PROVE  Times(T, X)' /\ next' \in 0 .. Period
<1>1. /\ tt = "timeout" /\ next # RT_TICK_MAX /\ UNCHANGED <<now, list, expiry, lock, since>>
      /\ IF Minus(next, now) < Half
         THEN tt' = "delay" /\ next' = Minus(next, now)
         ELSE tt' = "check" /\ next' = 0
  BY DEF NextTick, At, listVars, history
<1>2. Places(T, X)' /\ \A o \in Ops : Pending(o)' <=> Pending(o)
  BY <1>1, SamePlaces DEF Times
<1>3. PICK N \in Int :
        /\ TickOf(next, N) /\ N - T <= Period
        /\ \A p \in Ops : Pending(p) => N <= X[p]
        /\ \E p \in Ops :
             /\ Pending(p)
             /\ \/ X[p] = N
                \/ lock[p] = 0 /\ X[p] - N <= 2 * Period + MaxLate /\ T - X[p] <= MaxLate
  BY <1>1 DEF Times, NextRead
<1>4. T - N <= 2 * Period + 2 * MaxLate
  <2>1. PICK w \in Ops :
          /\ Pending(w)
          /\ \/ X[w] = N
             \/ lock[w] = 0 /\ X[w] - N <= 2 * Period + MaxLate /\ T - X[w] <= MaxLate
    BY <1>3
  <2>2. T - X[w] <= Period + MaxLate /\ X[w] \in Int
    BY <2>1 DEF Times, Places
  <2> QED BY <2>1, <2>2, Widths
<1>5. Minus(next, now) = IF N >= T THEN N - T ELSE N - T + W
  <2>1. TickOf(now, T) /\ TickOf(next, N)
    BY <1>3 DEF Times, Places
  <2>2. N - T < W /\ N - T > -W
    BY <1>3, <1>4, Widths
  <2> QED BY <2>1, <2>2, TickMinus
<1>6. tt' = "delay" => N >= T /\ next' = N - T
  BY <1>1, <1>4, <1>5, Widths
<1>7. next' \in 0 .. Period
  BY <1>1, <1>3, <1>5, <1>6, Widths
<1>8. Sleeps(T, X)'
  <2> SUFFICES ASSUME NEW o \in Ops, Pending(o)', tt' = "delay"
               PROVE  T - X[o] <= MaxLate
    BY <1>1 DEF Sleeps
  <2>1. N <= X[o] /\ X[o] \in Int
    BY <1>2, <1>3
  <2> QED BY <1>6, <2>1, Widths
<1>9. NextRead(T, X)' /\ CurRead(T, X)'
  BY <1>1 DEF NextRead, CurRead
<1>10. Locks(T, X)'
  BY <1>1, <1>2 DEF Times, Locks
<1> QED BY <1>2, <1>7, <1>8, <1>9, <1>10 DEF Times

\* It may begin late.
LEMMA DelayTimes ==
  ASSUME TypeOK, NEW T \in Int, NEW X \in [Ops -> Int], Times(T, X), Delay, next <= Period
  PROVE  Times(T, X)'
<1>1. /\ tt = "delay" /\ tt' = "asleep" /\ UNCHANGED <<now, list, expiry, lock, since>>
      /\ sleep' = IF next = 0 THEN 1 ELSE next
  BY DEF Delay, At, listVars, history
<1>2. Places(T, X)' /\ \A o \in Ops : Pending(o)' <=> Pending(o)
  BY <1>1, SamePlaces DEF Times
<1>3. sleep' \in 1 .. Period
  BY <1>1, Widths DEF TypeOK
<1>4. Sleeps(T, X)'
  <2> SUFFICES ASSUME NEW o \in Ops, Pending(o)'
               PROVE  T + sleep' - X[o] <= Period + MaxLate
    BY <1>1 DEF Sleeps
  <2>1. T - X[o] <= MaxLate /\ X[o] \in Int
    BY <1>1, <1>2 DEF Times, Sleeps
  <2> QED BY <1>3, <2>1, Widths
<1>5. NextRead(T, X)' /\ CurRead(T, X)'
  BY <1>1 DEF NextRead, CurRead
<1>6. Locks(T, X)'
  BY <1>1, <1>2 DEF Times, Locks
<1> QED BY <1>2, <1>4, <1>5, <1>6 DEF Times

\* The tick is read when all timers that run are on the list, or all but the one called.
LEMMA CurrentTickTimes ==
  ASSUME WakeInv, TypeOK, CallInv, NEW T \in Int, NEW X \in [Ops -> Int], Times(T, X),
         CurrentTick("check", "enter") \/ CurrentTick("called", "again")
  PROVE  Times(T, X)'
<1>1. /\ (tt = "check" /\ tt' = "enter") \/ (tt = "called" /\ tt' = "again")
      /\ UNCHANGED <<now, list, expiry, lock, since, n>> /\ cur' = now
  BY DEF CurrentTick, At, listVars, history
<1>2. Places(T, X)' /\ \A o \in Ops : Pending(o)' <=> Pending(o)
  BY <1>1, SamePlaces DEF Times
<1>3. TickOf(cur', T)
  BY <1>1 DEF Times, Places
<1>4. ASSUME NEW o \in Ops, Pending(o)
      PROVE  Known(T, X, T, o)'
  BY <1>2, <1>4 DEF Times, Places, Known
<1>5. tt' = "enter" => \E o \in Ops : Known(T, X, T, o)'
  <2> SUFFICES ASSUME tt' = "enter" PROVE \E o \in Ops : Known(T, X, T, o)'
    OBVIOUS
  <2>1. active # {} /\ ~ InCall
    BY <1>1 DEF WakeInv, OnList, InCall
  <2>2. PICK o \in Ops : Pending(o)
    BY <2>1 DEF WakeInv, OnList, TypeOK
  <2> QED BY <1>4, <2>2
<1>6. n' # NoOp => Known(T, X, T, n)'
  <2> SUFFICES ASSUME n # NoOp PROVE Known(T, X, T, n)'
    BY <1>1
  <2>1. n \in Ops /\ Pending(n)
    BY DEF CallInv, TypeOK
  <2> QED BY <1>1, <1>2, <2>1 DEF Times, Places, Known
<1>7. CurRead(T, X)'
  BY <1>3, <1>5, <1>6 DEF CurRead, Known
<1>8. Sleeps(T, X)' /\ NextRead(T, X)'
  BY <1>1 DEF Sleeps, NextRead
<1>9. Locks(T, X)'
  BY <1>1, <1>2 DEF Times, Locks
<1> QED BY <1>2, <1>7, <1>8, <1>9 DEF Times

\* Steps that touch none of this.
LEMMA OtherTimes ==
  ASSUME TypeOK, NEW T \in Int, NEW X \in [Ops -> Int], Times(T, X),
         TimeoutFunc \/ Suspend \/ TouchSleeps \/ WokenLate \/ UNCHANGED vars
  PROVE  Times(T, X)'
<1>1. /\ UNCHANGED <<now, list, expiry, next, cur, n, sleep>>
      /\ tt' \in {"called", "suspended"} \/ (tt' = tt /\ UNCHANGED <<lock, since>>)
  BY DEF TimeoutFunc, Suspend, TouchSleeps, WokenLate, vars, listVars, threadVars, history
<1>2. \A o \in Ops : lock'[o] = 0 => lock[o] = 0 /\ since'[o] = since[o]
  BY DEF TimeoutFunc, Suspend, TouchSleeps, WokenLate, vars, history, TypeOK
<1>3. Places(T, X)' /\ \A o \in Ops : Pending(o)' <=> Pending(o)
  BY <1>1, SamePlaces DEF Times
<1>4. Locks(T, X)'
  BY <1>2, <1>3 DEF Times, Locks
<1>5. CASE tt' \in {"called", "suspended"}
  BY <1>3, <1>4, <1>5 DEF Times, Sleeps, NextRead, CurRead
<1>6. CASE tt' = tt /\ UNCHANGED <<lock, since>>
  <2>1. Sleeps(T, X)'
    BY <1>1, <1>3, <1>6 DEF Times, Sleeps
  <2>2. NextRead(T, X)'
    BY <1>1, <1>3, <1>6 DEF Times, NextRead
  <2>3. \A C, o : Known(T, X, C, o) /\ o \in Ops => Known(T, X, C, o)'
    BY <1>3, <1>6 DEF Known
  <2>4. CurRead(T, X)'
    BY <1>1, <1>6, <2>3 DEF Times, CurRead, Known, TypeOK
  <2> QED BY <1>3, <1>4, <2>1, <2>2, <2>4 DEF Times
<1> QED BY <1>1, <1>5, <1>6
-----------------------------------------------------------------------------
(***************************************************************************)
(* The types, the timer being called and the node after it, after each     *)
(* step.                                                                   *)
(***************************************************************************)
Untimed == WakeInv /\ TypeOK /\ CallInv /\ (tt = "delay" => next <= Period)

LEMMA TickRange == \A v \in 0 .. RT_TICK_MAX, k \in 0 .. W - 1 : (v + k) % W \in 0 .. RT_TICK_MAX
<1> SUFFICES ASSUME NEW v \in 0 .. RT_TICK_MAX, NEW k \in 0 .. W - 1
             PROVE  (v + k) % W \in 0 .. RT_TICK_MAX
  OBVIOUS
<1>1. v + k \in Int /\ v + k >= 0 /\ v + k < 2 * W
  BY Widths
<1> DEFINE z == v + k
<1>2. z \in 0 .. W - 1 \/ z \in W .. 2 * W - 1
  BY <1>1, Widths
<1>3. z \in Int
  BY <1>1
<1> HIDE DEF z
<1>4. z % W \in 0 .. RT_TICK_MAX
  BY <1>2, <1>3, ModNear, Widths
<1> QED BY <1>4 DEF z

LEMMA StartedTypes ==
  ASSUME TypeOK, NEW o \in Ops, list' = Started(o).list, expiry' = Started(o).expiry
  PROVE  list' \in Seq(Ops) /\ expiry' \in [Ops -> 0 .. RT_TICK_MAX]
<1>1. list' \in Seq(Ops)
  BY StartedList DEF TypeOK
<1>2. (now + Period) % W \in 0 .. RT_TICK_MAX
  BY TickRange, Widths DEF TypeOK
<1>3. expiry' = [expiry EXCEPT ![o] = (now + Period) % W]
  BY DEF Started
<1> QED BY <1>1, <1>2, <1>3 DEF TypeOK

LEMMA StepTypes ==
  ASSUME Untimed, NEW T \in Int, NEW X \in [Ops -> Int], Times(T, X), [Next]_vars
  PROVE  TypeOK'
<1> USE DEF Untimed
<1>1. ASSUME NEW o \in Ops, LockOut(o) PROVE TypeOK'
  <2>1. list' \in Seq(Ops) /\ expiry' \in [Ops -> 0 .. RT_TICK_MAX]
    BY <1>1, StartedTypes DEF LockOut
  <2>2. /\ lock' \in [Ops -> {0, 1}] /\ since' \in [Ops -> 0 .. Period]
        /\ raced' \subseteq Ops /\ active' \subseteq Ops /\ touch' = "locked"
        /\ UNCHANGED <<now, threadVars>>
    BY <1>1, Widths DEF LockOut, TypeOK
  <2>3. \/ tt \in {"asleep", "suspended"} /\ tt' = "check" /\ sleep' = 0 /\ mistaken' = FALSE
        \/ UNCHANGED <<tt, sleep, mistaken>>
    BY <1>1 DEF LockOut, Resume
  <2>4. /\ tt' \in {"suspended", "entry", "timeout", "delay", "asleep",
                   "check", "enter", "call", "called", "again", "visit"}
        /\ sleep' \in 0 .. Half /\ (sleep' > 0 <=> tt' = "asleep") /\ mistaken' \in BOOLEAN
        /\ t' = t /\ (t \in Ops <=> tt' \in {"call", "called", "again"})
    <3>1. t' = t /\ 0 \in 0 .. Half
      BY <2>2, Widths DEF threadVars
    <3>2. CASE UNCHANGED <<tt, sleep, mistaken>>
      BY <3>1, <3>2 DEF TypeOK
    <3>3. CASE tt \in {"asleep", "suspended"} /\ tt' = "check" /\ sleep' = 0 /\ mistaken' = FALSE
      <4>1. tt' \in {"suspended", "entry", "timeout", "delay", "asleep",
                     "check", "enter", "call", "called", "again", "visit"}
        BY <3>3
      <4>2. sleep' \in 0 .. Half /\ (sleep' > 0 <=> tt' = "asleep")
        BY <3>1, <3>3
      <4>3. mistaken' \in BOOLEAN
        BY <3>3, Zenon
      <4>4. t \in Ops <=> tt' \in {"call", "called", "again"}
        BY <3>3 DEF TypeOK
      <4> QED BY <3>1, <4>1, <4>2, <4>3, <4>4
    <3> QED BY <2>3, <3>2, <3>3
  <2> QED BY <2>1, <2>2, <2>4 DEF threadVars, TypeOK
<1>2. CASE Again
  <2>1. CASE t \in active
    <3>1. list' \in Seq(Ops) /\ expiry' \in [Ops -> 0 .. RT_TICK_MAX]
      BY <1>2, <2>1, StartedTypes DEF Again, TypeOK
    <3> QED BY <1>2, <3>1, SoftTimerAssumption DEF Again, At, history, TypeOK
  <2>2. CASE t \notin active
    BY <1>2, <2>2, SoftTimerAssumption DEF Again, At, history, TypeOK
  <2> QED BY <2>1, <2>2
<1>3. CASE NextTimeout
  <2>1. next' \in 0 .. RT_TICK_MAX
    BY <1>3, Widths DEF NextTimeout, TypeOK
  <2>2. mistaken' \in BOOLEAN
    BY <1>3 DEF NextTimeout
  <2> QED BY <1>3, <2>1, <2>2 DEF NextTimeout, At, listVars, TypeOK
<1>4. CASE NextTick
  <2>1. next' \in 0 .. RT_TICK_MAX
    BY <1>4, NextTickTimes, Widths
  <2> QED BY <1>4, <2>1 DEF NextTick, At, listVars, history, TypeOK
<1>5. CASE Delay
  <2>1. sleep' \in 1 .. Half
    BY <1>5, Widths DEF Delay, At, TypeOK
  <2> QED BY <1>5, <2>1, Widths DEF Delay, At, listVars, history, TypeOK
<1>6. CASE CurrentTick("check", "enter") \/ CurrentTick("called", "again")
  <2>1. \/ tt = "check" /\ tt' = "enter"
        \/ tt = "called" /\ tt' = "again"
    BY <1>6 DEF CurrentTick, At
  <2> QED BY <1>6, <2>1 DEF CurrentTick, listVars, history, TypeOK
<1>7. CASE FirstNode \/ NextNode
  <2>1. /\ UNCHANGED <<now, active, expiry, next, sleep, touch, lock, history>>
        /\ tt \in {"enter", "visit"} /\ tt' \in {"call", "entry"} /\ cur' = 0
    BY <1>7 DEF FirstNode, NextNode, At, Visit
  <2>2. /\ now' \in 0 .. RT_TICK_MAX /\ cur' \in 0 .. RT_TICK_MAX
        /\ active' \subseteq Ops /\ expiry' \in [Ops -> 0 .. RT_TICK_MAX]
        /\ next' \in 0 .. RT_TICK_MAX /\ sleep' \in 0 .. Half
        /\ touch' \in {"asleep", "runs", "locked"} /\ lock' \in [Ops -> {0, 1}]
        /\ since' \in [Ops -> 0 .. Period] /\ raced' \subseteq Ops /\ mistaken' \in BOOLEAN
    BY <2>1, Widths DEF history, TypeOK
  <2>3. sleep' > 0 <=> tt' = "asleep"
    BY <2>1 DEF TypeOK
  <2>4. CASE tt' = "call"
    <3>1. /\ t' \in Ops /\ Pending(t') /\ list' = Without(t') /\ n' = NodeAfter(t')
          /\ Places(T, X)
      BY <1>7, <2>4, CalledWhenDue DEF Times
    <3>2. PICK o \in Ops : o = t'
      BY <3>1
    <3>3. n' # NoOp => n' \in Ops
      BY <2>1, <3>1, <3>2, VisitPlaces
    <3>4. list' \in Seq(Ops)
      BY <3>1, WithoutList DEF TypeOK
    <3> QED BY <2>4, <2>2, <2>3, <3>1, <3>3, <3>4 DEF TypeOK
  <2>5. CASE tt' = "entry"
    <3>1. t' = NoOp /\ n' = NoOp /\ list' = list
      BY <1>7, <2>5 DEF FirstNode, NextNode, Visit
    <3> QED BY <2>5, <2>2, <2>3, <3>1, SoftTimerAssumption DEF TypeOK
  <2> QED BY <2>1, <2>4, <2>5
<1>8. CASE TimeoutFunc
  BY <1>8, Widths DEF TimeoutFunc, At, listVars, threadVars, TypeOK
<1>9. CASE Tick
  <2>1. now' \in 0 .. RT_TICK_MAX
    BY <1>9, TickRange, Widths DEF Tick, TypeOK
  <2>2. since' \in [Ops -> 0 .. Period]
    BY <1>9, Widths DEF Tick, TypeOK
  <2>3. /\ sleep' \in 0 .. Half /\ (sleep' > 0 <=> tt' = "asleep")
        /\ tt' = tt \/ (tt = "asleep" /\ tt' = "check")
    BY <1>9, Widths DEF Tick, TypeOK
  <2>4. touch' \in {"asleep", "runs", "locked"}
    BY <1>9 DEF Tick, TypeOK
  <2> QED BY <1>9, <2>1, <2>2, <2>3, <2>4 DEF Tick, listVars, threadVars, TypeOK
<1>10. CASE Suspend \/ TouchSleeps \/ WokenLate \/ UNCHANGED vars
  <2>1. /\ UNCHANGED <<now, listVars, threadVars, sleep, lock, history>>
        /\ tt' = tt \/ (tt = "timeout" /\ tt' = "suspended")
    BY <1>10 DEF Suspend, At, TouchSleeps, WokenLate, vars
  <2>2. touch' \in {"asleep", "runs", "locked"}
    BY <1>10 DEF Suspend, At, TouchSleeps, WokenLate, vars, TypeOK
  <2> QED BY <2>1, <2>2 DEF listVars, threadVars, history, TypeOK
<1> QED BY <1>1, <1>2, <1>3, <1>4, <1>5, <1>6, <1>7, <1>8, <1>9, <1>10 DEF Next, TimerThread

LEMMA StepCallInv ==
  ASSUME Untimed, NEW T \in Int, NEW X \in [Ops -> Int], Times(T, X), [Next]_vars
  PROVE  CallInv'
<1> USE DEF Untimed
<1>1. ASSUME NEW o \in Ops, LockOut(o) PROVE CallInv'
  <2>1. \A p \in Ops : Pending(p)' <=> Pending(p) \/ p = o
    BY <1>1, StartedList DEF LockOut, TypeOK
  <2>2. /\ UNCHANGED <<n, t>> /\ active' = active \cup {o}
        /\ lock' = [lock EXCEPT ![o] = 0] /\ since' = [since EXCEPT ![o] = 0]
        /\ raced' = IF tt = "call" /\ t = o THEN raced \cup {o} ELSE raced
        /\ tt' = tt \/ (tt \in {"asleep", "suspended"} /\ tt' = "check")
    BY <1>1 DEF LockOut, Resume, threadVars
  <2>3. n' # NoOp => Pending(n)' /\ n' # t'
    BY <2>1, <2>2 DEF CallInv, TypeOK
  <2>4. tt' = "call" /\ lock'[t'] = 0 => since'[t'] = Period \/ t' \in raced'
    <3> SUFFICES ASSUME tt' = "call", lock'[t] = 0
                 PROVE  since'[t] = Period \/ t \in raced'
      BY <2>2
    <3>1. tt = "call" /\ t \in Ops
      BY <2>2 DEF TypeOK
    <3>2. CASE t = o
      BY <2>2, <3>1, <3>2
    <3>3. CASE t # o
      BY <2>2, <3>1, <3>3 DEF CallInv, TypeOK
    <3> QED BY <3>2, <3>3
  <2> QED BY <2>2, <2>3, <2>4 DEF CallInv, InCall
<1>2. CASE Again
  <2>1. /\ tt = "again" /\ tt' = "visit" /\ t' = NoOp /\ n' = n
        /\ t \in Ops /\ list' = Started(t).list
    BY <1>2 DEF Again, At, CallInv, InCall, TypeOK
  <2>2. \A p \in Ops : Pending(p)' <=> Pending(p) \/ p = t
    BY <2>1, StartedList DEF TypeOK
  <2> QED BY <2>1, <2>2 DEF CallInv, InCall, TypeOK
<1>3. CASE FirstNode \/ NextNode
  <2>1. UNCHANGED <<active, lock, since, raced>> /\ tt' \in {"call", "entry"}
    BY <1>3 DEF FirstNode, NextNode, Visit, history
  <2>2. CASE tt' = "call"
    <3>1. /\ t' \in Ops /\ Pending(t') /\ X[t'] <= T
          /\ list' = Without(t') /\ n' = NodeAfter(t')
          /\ UNCHANGED <<now, expiry>> /\ Places(T, X)
      BY <1>3, <2>2, CalledWhenDue DEF Times, FirstNode, NextNode
    <3>2. PICK o \in Ops : o = t'
      BY <3>1
    <3>3. n' # NoOp => \E p \in Ops \ {o} : p = n' /\ Pending(p)'
      BY <3>1, <3>2, VisitPlaces
    <3>4. o \in active
      BY <3>1, <3>2 DEF WakeInv, OnList
    <3>5. lock[o] = 0 => since[o] = Period
      <4> SUFFICES ASSUME lock[o] = 0 PROVE since[o] = Period
        OBVIOUS
      <4>1. Pending(o) /\ X[o] <= T /\ X[o] \in Int
        BY <3>1, <3>2
      <4>2. since[o] \in 0 .. Period /\ (since[o] = Period \/ since[o] >= T + Period - X[o])
        BY <4>1 DEF Times, Locks, TypeOK
      <4> QED BY <4>1, <4>2, Widths
    <3> QED BY <2>1, <3>2, <3>3, <3>4, <3>5 DEF CallInv, InCall
  <2>3. CASE tt' = "entry"
    BY <1>3, <2>3 DEF FirstNode, NextNode, Visit, CallInv, InCall
  <2> QED BY <2>1, <2>2, <2>3
<1>4. CASE UNCHANGED list /\ UNCHANGED <<active, n, t>>
           /\ (InCall' => InCall)
           /\ (tt' = "call" => tt = "call" /\ UNCHANGED <<lock, raced>>
                 /\ (\A o \in Ops : since[o] = Period => since'[o] = Period))
  <2>1. \A o \in Ops : Pending(o)' <=> Pending(o)
    BY <1>4 DEF Pending
  <2>2. n' # NoOp => Pending(n)' /\ n' # t'
    BY <1>4, <2>1 DEF CallInv, TypeOK
  <2> QED BY <1>4, <2>2 DEF CallInv, TypeOK
<1>5. CASE Tick
  <2>1. \A o \in Ops : since[o] = Period => since'[o] = Period
    BY <1>5, Widths DEF Tick
  <2>2. tt' = tt \/ tt' = "check"
    BY <1>5 DEF Tick
  <2> QED BY <1>4, <1>5, <2>1, <2>2 DEF Tick, listVars, threadVars, InCall
<1>6. CASE NextTimeout \/ NextTick \/ Delay \/ Suspend
  <2>1. UNCHANGED <<list, active, n, t>> /\ ~ InCall'
    BY <1>6 DEF NextTimeout, NextTick, Delay, Suspend, listVars, threadVars, InCall
  <2> QED BY <1>4, <2>1 DEF InCall
<1>7. CASE CurrentTick("check", "enter") \/ CurrentTick("called", "again") \/ TimeoutFunc
  <2>1. /\ UNCHANGED <<list, active, n, t>> /\ tt' # "call"
        /\ tt \in {"called", "call"} \/ tt' = "enter"
    BY <1>7 DEF CurrentTick, At, TimeoutFunc, listVars, threadVars
  <2> QED BY <1>4, <2>1 DEF InCall
<1>8. CASE TouchSleeps \/ WokenLate \/ UNCHANGED vars
  <2>1. UNCHANGED <<list, active, n, t, tt, lock, raced, since>>
    BY <1>8 DEF TouchSleeps, WokenLate, vars, listVars, threadVars, history
  <2> QED BY <1>4, <2>1 DEF InCall
<1> QED BY <1>1, <1>2, <1>3, <1>5, <1>6, <1>7, <1>8 DEF Next, TimerThread
-----------------------------------------------------------------------------
(***************************************************************************)
(* The invariant.                                                          *)
(***************************************************************************)
LEMMA InitTimeInv == Init => TimeInv
<1> SUFFICES ASSUME Init PROVE TimeInv
  OBVIOUS
<1> DEFINE X == [o \in Ops |-> 0]
<1>1. WakeInv /\ \A o \in Ops : ~ Pending(o)
  BY InitWakeInv DEF Init, Pending
<1>2. TypeOK
  <2>1. /\ 0 \in 0 .. RT_TICK_MAX /\ RT_TICK_MAX \in 0 .. RT_TICK_MAX
        /\ 0 \in 0 .. Half /\ Period \in 0 .. Period /\ ~ 0 > 0
    BY Widths
  <2>2. NoOp \notin Ops
    BY SoftTimerAssumption
  <2>3. /\ expiry \in [Ops -> 0 .. RT_TICK_MAX] /\ since \in [Ops -> 0 .. Period]
        /\ lock \in [Ops -> {0, 1}] /\ list \in Seq(Ops)
    BY <2>1 DEF Init
  <2>4. /\ tt \in {"suspended", "entry", "timeout", "delay", "asleep",
                  "check", "enter", "call", "called", "again", "visit"}
        /\ (sleep > 0 <=> tt = "asleep") /\ (t \in Ops <=> tt \in {"call", "called", "again"})
    BY <2>1, <2>2 DEF Init
  <2> QED BY <2>1, <2>3, <2>4 DEF Init, TypeOK
<1>3. CallInv /\ tt = "suspended"
  BY DEF Init, CallInv, InCall
<1>4. TickOf(now, 0)
  <2>1. 0 \in Int /\ 0 \in 0 .. W - 1 /\ 0 = 0 + W * 0
    BY Widths
  <2> QED BY <2>1 DEF Init, TickOf
<1>5. Places(0, X)
  BY <1>1, <1>2, <1>4 DEF Init, Places, InOrder, TypeOK
<1>6. Times(0, X)
  BY <1>1, <1>3, <1>5 DEF Times, Sleeps, NextRead, CurRead, Locks
<1>7. 0 \in Int /\ X \in [Ops -> Int]
  OBVIOUS
<1> HIDE DEF X
<1> QED BY <1>1, <1>2, <1>3, <1>6, <1>7 DEF TimeInv

(***************************************************************************)
(* Time and expiry times after a step: only a tick changes the one, only a *)
(* start the others.                                                       *)
(***************************************************************************)
LEMMA StepTimes ==
  ASSUME Untimed, NEW T \in Int, NEW X \in [Ops -> Int], Times(T, X), [Next]_vars
  PROVE  \E U \in Int, Y \in [Ops -> Int] : Times(U, Y)'
<1> USE DEF Untimed
<1>1. ASSUME NEW o \in Ops, LockOut(o) \/ (Again /\ o = t)
      PROVE  \E U \in Int, Y \in [Ops -> Int] : Times(U, Y)'
  <2>1. Times(T, [X EXCEPT ![o] = T + Period])'
    BY <1>1, LockOutTimes, AgainTimes
  <2>2. [X EXCEPT ![o] = T + Period] \in [Ops -> Int]
    BY Widths
  <2> QED BY <2>1, <2>2
<1>2. CASE Again
  <2>1. t \in Ops
    BY <1>2 DEF Again, At, CallInv, InCall, TypeOK
  <2>2. PICK o \in Ops : o = t
    BY <2>1
  <2> QED BY <1>1, <1>2, <2>2
<1>3. CASE Tick
  <2>1. Times(T + 1, X)' /\ T + 1 \in Int
    BY <1>3, TickTimes
  <2> QED BY <2>1
<1>4. CASE Times(T, X)'
  BY <1>4
<1>5. CASE FirstNode \/ NextNode
  BY <1>4, <1>5, VisitTimes
<1>6. CASE NextTimeout
  BY <1>4, <1>6, NextTimeoutTimes
<1>7. CASE NextTick
  BY <1>4, <1>7, NextTickTimes
<1>8. CASE Delay
  BY <1>4, <1>8, DelayTimes DEF Delay, At
<1>9. CASE CurrentTick("check", "enter") \/ CurrentTick("called", "again")
  BY <1>4, <1>9, CurrentTickTimes
<1>10. CASE TimeoutFunc \/ Suspend \/ TouchSleeps \/ WokenLate \/ UNCHANGED vars
  BY <1>4, <1>10, OtherTimes
<1> QED BY <1>1, <1>2, <1>3, <1>5, <1>6, <1>7, <1>8, <1>9, <1>10 DEF Next, TimerThread

LEMMA StepTimeInv == TimeInv /\ [Next]_vars => TimeInv'
<1> SUFFICES ASSUME TimeInv, [Next]_vars PROVE TimeInv'
  OBVIOUS
<1>1. Untimed
  BY DEF TimeInv, Untimed
<1>2. PICK T \in Int, X \in [Ops -> Int] : Times(T, X)
  BY DEF TimeInv
<1>3. WakeInv'
  BY StepWakeInv DEF TimeInv
<1>4. TypeOK' /\ CallInv'
  BY <1>1, <1>2, StepTypes, StepCallInv
<1>5. tt' = "delay" => next' <= Period
  <2> SUFFICES ASSUME tt' = "delay" PROVE next' <= Period
    OBVIOUS
  <2>1. CASE NextTick
    BY <1>1, <1>2, <2>1, NextTickTimes, Widths DEF Untimed
  <2>2. CASE ~ NextTick
    <3>1. tt = "delay" /\ next' = next
      BY <2>2 DEF Next, TimerThread, vars, listVars, threadVars, TouchSleeps, NextTimeout,
         Suspend, Delay, CurrentTick, At, FirstNode, NextNode, Visit, TimeoutFunc, Again,
         Tick, WokenLate, LockOut, Resume
    <3> QED BY <1>1, <3>1 DEF Untimed
  <2> QED BY <2>1, <2>2
<1>6. \E U \in Int, Y \in [Ops -> Int] : Times(U, Y)'
  BY <1>1, <1>2, StepTimes
<1> QED BY <1>3, <1>4, <1>5, <1>6 DEF TimeInv

\* It holds always.
LEMMA SpecTimeInv == Spec => []TimeInv
BY InitTimeInv, StepTimeInv, PTL DEF Spec

(***************************************************************************)
(* No local of the timer thread, no time-out and no list of timers leaves  *)
(* its range: in particular no delay is longer than half the range of the  *)
(* ticks.                                                                  *)
(***************************************************************************)
THEOREM TimerTypes == Spec => []TypeOK
<1>1. TimeInv => TypeOK
  BY DEF TimeInv
<1> QED BY SpecTimeInv, <1>1, PTL

(***************************************************************************)
(* The list keeps its order, although the comparison of rt_timer_start is  *)
(* one of differences modulo W, the ticks wrap around and time-outs and    *)
(* dialogs make timers late; a running timer is on it exactly once or is   *)
(* being called, and the node the check goes on to is still on it.         *)
(***************************************************************************)
THEOREM ListInOrder == Spec => []ListRight
<1>1. TimeInv => ListRight
  <2> SUFFICES ASSUME TimeInv PROVE ListRight
    OBVIOUS
  <2>1. PICK T \in Int, X \in [Ops -> Int] : Times(T, X)
    BY DEF TimeInv
  <2>2. list \in Seq(Ops) /\ InOrder(list, X)
    BY <2>1 DEF Times, Places
  <2>3. ASSUME NEW i \in DOMAIN list, NEW j \in DOMAIN list, i # j
        PROVE  list[i] # list[j]
    <3>1. i < j \/ j < i
      BY <2>2, <2>3
    <3> QED BY <2>2, <3>1 DEF InOrder
  <2>4. ASSUME NEW i \in DOMAIN list, NEW j \in DOMAIN list, i < j
        PROVE  Minus(expiry[list[j]], expiry[list[i]]) < Half
    <3> DEFINE p == list[i]  q == list[j]
    <3>1. p \in Ops /\ q \in Ops /\ Pending(p) /\ Pending(q) /\ X[p] <= X[q]
      BY <2>2, <2>4 DEF InOrder, Pending
    <3> HIDE DEF p, q
    <3>2. /\ TickOf(expiry[p], X[p]) /\ TickOf(expiry[q], X[q])
          /\ X[p] \in Int /\ X[q] \in Int
          /\ X[q] - T <= Period /\ T - X[p] <= Period + MaxLate
      BY <2>1, <3>1 DEF Times, Places
    <3>3. X[q] - X[p] \in 0 .. 2 * Period + MaxLate
      BY <3>1, <3>2, Widths
    <3>4. Minus(expiry[q], expiry[p]) = X[q] - X[p]
      BY <3>2, <3>3, TickMinus, Widths
    <3>5. Minus(expiry[q], expiry[p]) < Half
      BY <3>2, <3>3, <3>4, Widths
    <3> QED BY <3>5 DEF p, q
  <2>5. /\ \A o \in Ops : Pending(o) => o \in active
        /\ \A o \in active : Pending(o) \/ o = t
        /\ n # NoOp => Pending(n)
    BY DEF TimeInv, WakeInv, OnList, CallInv
  <2> QED BY <2>3, <2>4, <2>5 DEF ListRight
<1> QED BY SpecTimeInv, <1>1, PTL

(***************************************************************************)
(* An operation is unlocked when its lock-out is over, unless it was       *)
(* locked in the window in which rt_soft_timer_check has left its critical *)
(* section and not called the function yet.                                *)
(***************************************************************************)
THEOREM UnlockedOnTime == Spec => EarlyOnlyInWindow
<1> DEFINE OnTime == \A o \in Ops :
             lock[o] = 0 /\ lock'[o] = 1 => since[o] = Period \/ o \in raced
<1>1. TimeInv /\ [Next]_vars => [OnTime]_vars
  <2> SUFFICES ASSUME TimeInv, [Next]_vars, NEW o \in Ops, lock[o] = 0, lock'[o] = 1
               PROVE  since[o] = Period \/ o \in raced
    OBVIOUS
  <2>1. TypeOK /\ CallInv
    BY DEF TimeInv
  <2>2. CASE TimeoutFunc
    <3>1. tt = "call" /\ t \in Ops /\ lock' = [lock EXCEPT ![t] = 1]
      BY <2>1, <2>2 DEF TimeoutFunc, At, TypeOK
    <3>2. t = o
      BY <2>1, <3>1 DEF TypeOK
    <3> QED BY <2>1, <3>1, <3>2 DEF CallInv
  <2>3. ASSUME NEW p \in Ops, LockOut(p) PROVE FALSE
    BY <2>1, <2>3 DEF LockOut, TypeOK
  <2>4. CASE lock' = lock
    BY <2>4
  <2> QED
    BY <2>2, <2>3, <2>4 DEF Next, TimerThread, vars, TouchSleeps, NextTimeout, Suspend,
       NextTick, Delay, CurrentTick, FirstNode, NextNode, Again, Tick, WokenLate
<1> QED BY SpecTimeInv, <1>1, PTL DEF Spec, EarlyOnlyInWindow
-----------------------------------------------------------------------------
(***************************************************************************)
(* The service: the age of a timer that runs is the time since it was      *)
(* started, up to a period.                                                *)
(***************************************************************************)
AgeAt(T, x) == IF x <= T THEN Period ELSE Period - (x - T)

LEMMA AgeOfTick ==
  ASSUME NEW a, NEW e, NEW T \in Int, NEW x \in Int, TickOf(a, T), TickOf(e, x),
         x - T <= Period, T - x <= Period + MaxLate
  PROVE  (IF Minus(a, e) < Half THEN Period ELSE Period - Minus(e, a)) = AgeAt(T, x)
<1>1. /\ Minus(a, e) = IF T >= x THEN T - x ELSE T - x + W
      /\ Minus(e, a) = IF x >= T THEN x - T ELSE x - T + W
  BY TickMinus, Widths
<1> QED BY <1>1, Widths DEF AgeAt

LEMMA AgeIs ==
  ASSUME NEW T \in Int, NEW X \in [Ops -> Int], Places(T, X), NEW o \in Ops
  PROVE  Age(o) = IF Pending(o) THEN AgeAt(T, X[o]) ELSE 0
<1>1. CASE Pending(o)
  <2>1. /\ TickOf(now, T) /\ TickOf(expiry[o], X[o]) /\ X[o] \in Int
        /\ X[o] - T <= Period /\ T - X[o] <= Period + MaxLate
    BY <1>1 DEF Places
  <2> QED BY <1>1, <2>1, AgeOfTick DEF Age
<1>2. CASE ~ Pending(o)
  BY <1>2 DEF Age
<1> QED BY <1>1, <1>2

LEMMA AgeIsNext ==
  ASSUME NEW T \in Int, NEW X \in [Ops -> Int], Places(T, X)', NEW o \in Ops
  PROVE  Age(o)' = IF Pending(o)' THEN AgeAt(T, X[o]) ELSE 0
<1>1. CASE Pending(o)'
  <2>1. /\ TickOf(now', T) /\ TickOf(expiry'[o], X[o]) /\ X[o] \in Int
        /\ X[o] - T <= Period /\ T - X[o] <= Period + MaxLate
    BY <1>1 DEF Places
  <2> QED BY <1>1, <2>1, AgeOfTick DEF Age
<1>2. CASE ~ Pending(o)'
  BY <1>2 DEF Age
<1> QED BY <1>1, <1>2

\* The abstract state.
ArmedBar == {o \in Ops : Pending(o)}
AgeBar == [o \in Ops |-> Age(o)]
ExpiredBar == IF tt = "call" THEN {t} ELSE {}

\* Nothing is started, nobody runs.
LEMMA InitService == Init => Service!SInit
<1> SUFFICES ASSUME Init PROVE Service!SInit
  OBVIOUS
<1>1. \A o \in Ops : ~ Pending(o)
  BY DEF Init, Pending
<1>2. \A o \in Ops : Age(o) = 0
  BY <1>1 DEF Age
<1>3. tt # "call"
  BY DEF Init
<1> QED BY <1>1, <1>2, <1>3 DEF Service!SInit

\* A start, by the touch thread or by the timer thread, is one of the service.
LEMMA StartIsArm ==
  ASSUME NEW T \in Int, NEW X \in [Ops -> Int], Places(T, X), NEW o \in Ops,
         Places(T, [X EXCEPT ![o] = T + Period])',
         \A p \in Ops : Pending(p)' <=> Pending(p) \/ p = o,
         ExpiredBar' = ExpiredBar
  PROVE  Service!Arm(o)
<1> DEFINE Y == [X EXCEPT ![o] = T + Period]
<1>1. Y \in [Ops -> Int] /\ Y[o] = T + Period /\ \A p \in Ops : p # o => Y[p] = X[p]
  BY Widths
<1> HIDE DEF Y
<1>2. Age(o)' = 0
  <2>1. Age(o)' = AgeAt(T, T + Period)
    BY <1>1, AgeIsNext DEF Y
  <2> QED BY <2>1, Widths DEF AgeAt
<1>3. ASSUME NEW p \in Ops, p # o
      PROVE  Age(p)' = Age(p)
  <2>1. Age(p)' = IF Pending(p)' THEN AgeAt(T, Y[p]) ELSE 0
    BY <1>1, AgeIsNext DEF Y
  <2>2. Age(p) = IF Pending(p) THEN AgeAt(T, X[p]) ELSE 0
    BY AgeIs
  <2> QED BY <1>1, <1>3, <2>1, <2>2
<1>4. ArmedBar' = ArmedBar \cup {o}
  BY DEF ArmedBar
<1>5. AgeBar' = [AgeBar EXCEPT ![o] = 0]
  BY <1>2, <1>3 DEF AgeBar
<1> QED BY <1>4, <1>5 DEF Service!Arm, ArmedBar, AgeBar, ExpiredBar

\* The other steps without a tick that leave the list alone.
LEMMA SameService ==
  ASSUME UNCHANGED <<now, list, expiry>>
  PROVE  ArmedBar' = ArmedBar /\ AgeBar' = AgeBar
<1>1. \A o \in Ops : Pending(o)' <=> Pending(o)
  BY DEF Pending
<1>2. \A o \in Ops : Age(o)' = Age(o)
  BY <1>1 DEF Age
<1> QED BY <1>1, <1>2 DEF ArmedBar, AgeBar

(***************************************************************************)
(* Every step is one of the service or leaves its state as it is.          *)
(***************************************************************************)
LEMMA StepService == TimeInv /\ [Next]_vars => [Service!SNext]_(Service!svars)
<1> SUFFICES ASSUME TimeInv, [Next]_vars
             PROVE  \/ Service!SNext
                    \/ ArmedBar' = ArmedBar /\ AgeBar' = AgeBar /\ ExpiredBar' = ExpiredBar
  BY DEF Service!svars, ArmedBar, AgeBar, ExpiredBar
<1>1. Untimed /\ TypeOK /\ CallInv /\ WakeInv
  BY DEF TimeInv, Untimed
<1>2. PICK T \in Int, X \in [Ops -> Int] : Times(T, X)
  BY DEF TimeInv
<1>3. Places(T, X)
  BY <1>2 DEF Times
<1>4. ASSUME NEW o \in Ops, Service!Arm(o) \/ Service!Expire(o) \/ Service!Call(o)
      PROVE  Service!SNext
  BY <1>4 DEF Service!SNext
<1>5. ASSUME NEW o \in Ops, LockOut(o)
      PROVE  Service!SNext
  <2>1. Places(T, [X EXCEPT ![o] = T + Period])'
    BY <1>1, <1>2, <1>5, LockOutTimes DEF Times
  <2>2. \A p \in Ops : Pending(p)' <=> Pending(p) \/ p = o
    BY <1>1, <1>5, StartedList DEF LockOut, TypeOK
  <2>3. ExpiredBar' = ExpiredBar
    BY <1>5 DEF LockOut, Resume, threadVars, ExpiredBar
  <2> QED BY <1>3, <1>4, <2>1, <2>2, <2>3, StartIsArm
<1>6. CASE Again
  <2>1. t \in Ops /\ t \in active /\ tt = "again" /\ tt' = "visit"
    BY <1>1, <1>6 DEF Again, At, CallInv, InCall, TypeOK
  <2>2. PICK o \in Ops : o = t
    BY <2>1
  <2>3. Places(T, [X EXCEPT ![o] = T + Period])'
    BY <1>1, <1>2, <1>6, <2>2, AgainTimes DEF Times
  <2>4. \A p \in Ops : Pending(p)' <=> Pending(p) \/ p = o
    BY <1>1, <1>6, <2>1, <2>2, StartedList DEF Again, TypeOK
  <2>5. ExpiredBar' = ExpiredBar
    BY <2>1 DEF ExpiredBar
  <2> QED BY <1>3, <1>4, <2>3, <2>4, <2>5, StartIsArm
<1>7. CASE (FirstNode \/ NextNode) /\ tt' = "call"
  <2>1. /\ t' \in Ops /\ Pending(t') /\ X[t'] <= T /\ list' = Without(t')
        /\ UNCHANGED <<now, expiry>> /\ tt # "call"
    BY <1>1, <1>2, <1>7, CalledWhenDue DEF FirstNode, NextNode
  <2>2. PICK o \in Ops : o = t'
    BY <2>1
  <2>3. Places(T, X)' /\ \A p \in Ops : Pending(p)' <=> Pending(p) /\ p # o
    BY <1>3, <2>1, <2>2, VisitPlaces
  <2>4. Age(o) = Period /\ Age(o)' = 0
    <3>1. Age(o) = AgeAt(T, X[o]) /\ X[o] <= T
      BY <1>3, <2>1, <2>2, AgeIs
    <3>2. Age(o)' = 0
      BY <2>3 DEF Age
    <3> QED BY <3>1, <3>2 DEF AgeAt
  <2>5. ASSUME NEW p \in Ops, p # o
        PROVE  Age(p)' = Age(p)
    <3>1. Age(p)' = IF Pending(p)' THEN AgeAt(T, X[p]) ELSE 0
      BY <2>3, AgeIsNext
    <3>2. Age(p) = IF Pending(p) THEN AgeAt(T, X[p]) ELSE 0
      BY <1>3, AgeIs
    <3> QED BY <2>3, <2>5, <3>1, <3>2
  <2>6. ArmedBar' = ArmedBar \ {o} /\ o \in ArmedBar
    BY <2>1, <2>2, <2>3 DEF ArmedBar
  <2>7. AgeBar' = [AgeBar EXCEPT ![o] = 0] /\ AgeBar[o] = Period
    BY <2>4, <2>5 DEF AgeBar
  <2>8. ExpiredBar = {} /\ ExpiredBar' = {o}
    BY <1>7, <2>1, <2>2 DEF ExpiredBar
  <2>9. Service!Expire(o)
    BY <2>6, <2>7, <2>8 DEF Service!Expire, ArmedBar, AgeBar, ExpiredBar
  <2> QED BY <1>4, <2>9
<1>8. CASE TimeoutFunc
  <2>1. /\ UNCHANGED <<now, list, expiry>>
        /\ tt = "call" /\ tt' = "called" /\ t \in Ops
    BY <1>1, <1>8 DEF TimeoutFunc, At, listVars, TypeOK
  <2>2. PICK o \in Ops : o = t
    BY <2>1
  <2>3. ArmedBar' = ArmedBar /\ AgeBar' = AgeBar
    BY <2>1, SameService
  <2>4. ExpiredBar = {o} /\ ExpiredBar' = {}
    BY <2>1, <2>2 DEF ExpiredBar
  <2>5. Service!Call(o)
    BY <2>3, <2>4 DEF Service!Call, ArmedBar, AgeBar, ExpiredBar
  <2> QED BY <1>4, <2>5
<1>9. CASE Tick
  <2>1. Places(T + 1, X)'
    BY <1>1, <1>2, <1>9, TickTimes DEF Times
  <2>2. UNCHANGED <<list, t>> /\ (tt' = tt \/ (tt = "asleep" /\ tt' = "check"))
    BY <1>1, <1>9 DEF Tick, listVars, threadVars, TypeOK
  <2>3. \A o \in Ops : Pending(o)' <=> Pending(o)
    BY <2>2 DEF Pending
  <2>4. ASSUME NEW o \in Ops
        PROVE  Age(o)' = IF Pending(o) /\ Age(o) < Period THEN Age(o) + 1 ELSE Age(o)
    <3>1. Age(o)' = IF Pending(o)' THEN AgeAt(T + 1, X[o]) ELSE 0
      BY <2>1, AgeIsNext
    <3>2. Age(o) = IF Pending(o) THEN AgeAt(T, X[o]) ELSE 0
      BY <1>3, AgeIs
    <3>3. X[o] \in Int
      OBVIOUS
    <3>4. AgeAt(T + 1, X[o]) =
            IF AgeAt(T, X[o]) < Period THEN AgeAt(T, X[o]) + 1 ELSE AgeAt(T, X[o])
      BY <3>3, Widths DEF AgeAt
    <3> QED BY <2>3, <3>1, <3>2, <3>4
  <2>5. ArmedBar' = ArmedBar
    BY <2>3 DEF ArmedBar
  <2>6. AgeBar' = [o \in Ops |-> IF o \in ArmedBar /\ AgeBar[o] < Period
                                THEN AgeBar[o] + 1 ELSE AgeBar[o]]
    BY <2>4 DEF AgeBar, ArmedBar
  <2>7. ExpiredBar' = ExpiredBar
    BY <2>2 DEF ExpiredBar
  <2>8. Service!Time
    BY <2>5, <2>6, <2>7 DEF Service!Time, ArmedBar, AgeBar, ExpiredBar
  <2> QED BY <2>8 DEF Service!SNext
<1>10. CASE UNCHANGED <<now, list, expiry>> /\ (tt = "call" <=> tt' = "call")
            /\ (tt = "call" => t' = t)
  <2>1. ArmedBar' = ArmedBar /\ AgeBar' = AgeBar
    BY <1>10, SameService
  <2>2. ExpiredBar' = ExpiredBar
    BY <1>10 DEF ExpiredBar
  <2> QED BY <2>1, <2>2
<1>11. CASE (FirstNode \/ NextNode) /\ tt' # "call"
  BY <1>10, <1>11 DEF FirstNode, NextNode, At, Visit
<1>12. CASE NextTimeout \/ NextTick \/ Delay \/ Suspend
  BY <1>10, <1>12 DEF NextTimeout, NextTick, Delay, Suspend, At, listVars
<1>13. CASE CurrentTick("check", "enter") \/ CurrentTick("called", "again")
  BY <1>10, <1>13 DEF CurrentTick, At, listVars
<1>14. CASE TouchSleeps \/ WokenLate \/ UNCHANGED vars
  BY <1>10, <1>14 DEF TouchSleeps, WokenLate, vars, listVars, threadVars
<1> QED BY <1>5, <1>6, <1>7, <1>8, <1>9, <1>11, <1>12, <1>13, <1>14 DEF Next, TimerThread

(***************************************************************************)
(* Timer list, timer thread and the restart of periodic timers implement   *)
(* the service: each expiry is answered by one call, no timer expires      *)
(* before a whole period has passed since its last start, and ticks that   *)
(* wrap around, late timers and old time-outs in locals do not show.       *)
(***************************************************************************)
THEOREM TimersAreService == Spec => ImplementsTimerService
BY InitService, SpecTimeInv, StepService, PTL DEF Spec, ImplementsTimerService, Service!SSpec
=============================================================================
