---------------------------- MODULE ClockProofs ----------------------------
(***************************************************************************)
(* The loops of RTC_Set and RTC_Get count days as the Gregorian calendar   *)
(* does, for every day; and what the clock promises of the calendar that   *)
(* it keeps with them.  The loops are recursive functions: that there is   *)
(* one is shown with a closed form that satisfies the equation, and what   *)
(* it returns by induction on a set of numbers.                            *)
(***************************************************************************)
EXTENDS Clock, TLAPS, WellFoundedInduction

\* A set of natural numbers that is not empty has a least member.
LEMMA Least ==
  ASSUME NEW S, S \subseteq Nat, S # {}
  PROVE  \E x \in S : \A y \in S : ~ (y < x)
<1>1. IsWellFoundedOn(OpToRel(<, Nat), Nat)
  BY NatLessThanWellFounded
<1>2. \E x \in S : \A y \in S : ~ (<<y, x>> \in OpToRel(<, Nat))
  BY <1>1, WFMin
<1> QED BY <1>2 DEF OpToRel

\* Induction: a set with 0, and with the successor of each of its members,
\* holds every natural number.
LEMMA Induction ==
  ASSUME NEW S, 0 \in S, \A n \in Nat : n \in S => n + 1 \in S
  PROVE  Nat \subseteq S
<1>1. SUFFICES ASSUME Nat \ S # {} PROVE FALSE
  OBVIOUS
<1>2. PICK x \in Nat \ S : \A y \in Nat \ S : ~ (y < x)
  BY <1>1, Least
<1>3. x # 0 /\ x - 1 \in Nat /\ (x - 1) + 1 = x
  BY <1>2
<1>4. x - 1 \in S
  BY <1>2, <1>3
<1>5. (x - 1) + 1 \in S
  BY <1>3, <1>4
<1> QED BY <1>2, <1>3, <1>5

\* Days from the year 0 of the calendar to the first of a year.
YearStart(y) == 365 * y + LeapsTo(y - 1)

\* A year adds one leap year to those before it when Is_Leap_Year (rtc.c:105)
\* says so, and none otherwise.
LEMMA LeapStep ==
  ASSUME NEW y \in Nat
  PROVE  /\ LeapsTo(y) \in Int /\ LeapsTo(y - 1) \in Int
         /\ LeapsTo(y) = LeapsTo(y - 1) + IF Is_Leap_Year(y) THEN 1 ELSE 0
<1>1. y \div 4 = (y - 1) \div 4 + IF y % 4 = 0 THEN 1 ELSE 0
  OBVIOUS
<1>2. y \div 100 = (y - 1) \div 100 + IF y % 100 = 0 THEN 1 ELSE 0
  OBVIOUS
<1>3. y \div 400 = (y - 1) \div 400 + IF y % 400 = 0 THEN 1 ELSE 0
  OBVIOUS
<1>4. (y % 400 = 0 => y % 100 = 0) /\ (y % 100 = 0 => y % 4 = 0)
  OBVIOUS
<1> QED BY <1>1, <1>2, <1>3, <1>4 DEF LeapsTo, Is_Leap_Year

\* A year starts as many days after the one before it as that one is long.
LEMMA YearStep ==
  ASSUME NEW y \in Nat
  PROVE  /\ YearStart(y) \in Int /\ YearLen(y) \in {365, 366}
         /\ YearStart(y + 1) = YearStart(y) + YearLen(y)
<1>1. y + 1 - 1 = y
  OBVIOUS
<1> QED BY <1>1, LeapStep DEF YearStart, YearLen

\* Is_Leap_Year is the Gregorian rule.
LEMMA LeapRight == ASSUME NEW y \in Nat PROVE Is_Leap_Year(y) <=> Leap(y)
<1>1. (y % 400 = 0 => y % 100 = 0) /\ (y % 100 = 0 => y % 4 = 0)
  OBVIOUS
<1> QED BY <1>1 DEF Leap, Is_Leap_Year

\* k years take 365 days each at least.
LEMMA YearsGrow ==
  ASSUME NEW b \in Nat, NEW k \in Nat
  PROVE  YearStart(b + k) >= YearStart(b) + 365 * k
<1> DEFINE S == {i \in Nat : YearStart(b + i) >= YearStart(b) + 365 * i}
<1>1. 0 \in S
  BY YearStep
<1>2. ASSUME NEW i \in Nat, i \in S PROVE i + 1 \in S
  <2>1. b + i \in Nat /\ b + (i + 1) = (b + i) + 1
    OBVIOUS
  <2>2. /\ YearStart(b + (i + 1)) = YearStart(b + i) + YearLen(b + i)
        /\ YearLen(b + i) >= 365 /\ YearLen(b + i) \in Int
        /\ YearStart(b + i) \in Int /\ YearStart(b) \in Int
    BY <2>1, YearStep
  <2>3. YearStart(b + i) >= YearStart(b) + 365 * i
    BY <1>2
  <2>4. \A p, q, l \in Int : p >= q + 365 * i /\ l >= 365 => p + l >= q + 365 * (i + 1)
    OBVIOUS
  <2>5. YearStart(b + (i + 1)) >= YearStart(b) + 365 * (i + 1)
    BY <2>2, <2>3, <2>4
  <2> QED BY <2>5
<1>3. Nat \subseteq S
  <2> HIDE DEF S
  <2> QED BY <1>1, <1>2, Induction
<1> QED BY <1>3

\* The sum over the years in RTC_Set (rtc.c:136) satisfies its equation.
LEMMA YearsBeforeEq ==
  \A y \in Nat :
    YearsBefore[y] = IF y <= FirstYear THEN 0 ELSE YearsBefore[y - 1] + YearLen(y - 1)
<1> DEFINE g == [y \in Nat |->
                   IF y <= FirstYear THEN 0 ELSE YearStart(y) - YearStart(FirstYear)]
<1>1. ASSUME NEW y \in Nat
      PROVE  g[y] = IF y <= FirstYear THEN 0 ELSE g[y - 1] + YearLen(y - 1)
  <2>1. CASE y <= FirstYear
    BY <2>1
  <2>2. CASE y > FirstYear
    <3>1. y - 1 \in Nat /\ (y - 1) + 1 = y /\ ~ (y <= FirstYear) /\ FirstYear \in Nat
          /\ (y - 1 <= FirstYear => y - 1 = FirstYear)
      BY <2>2 DEF FirstYear
    <3>2. YearStart(y) = YearStart(y - 1) + YearLen(y - 1) /\ YearStart(y - 1) \in Int
          /\ YearStart(FirstYear) \in Int /\ YearLen(y - 1) \in Int
      BY <3>1, YearStep
    <3>3. g[y] = YearStart(y) - YearStart(FirstYear)
      BY <3>1
    <3>4. g[y - 1] = YearStart(y - 1) - YearStart(FirstYear)
      <4>1. CASE y - 1 = FirstYear
        BY <4>1, <3>1, <3>2
      <4>2. CASE ~ (y - 1 <= FirstYear)
        BY <4>2, <3>1
      <4> QED BY <4>1, <4>2, <3>1
    <3> HIDE DEF g
    <3> QED BY <3>1, <3>2, <3>3, <3>4
  <2> QED BY <2>1, <2>2 DEF FirstYear
<1>2. g = [y \in Nat |-> IF y <= FirstYear THEN 0 ELSE g[y - 1] + YearLen(y - 1)]
  <2>1. g = [y \in Nat |-> g[y]]
    OBVIOUS
  <2> HIDE DEF g
  <2> QED BY <1>1, <2>1
<1>3. \E f : f = [y \in Nat |-> IF y <= FirstYear THEN 0 ELSE f[y - 1] + YearLen(y - 1)]
  <2> HIDE DEF g
  <2> QED BY <1>2
<1>4. YearsBefore =
        [y \in Nat |-> IF y <= FirstYear THEN 0 ELSE YearsBefore[y - 1] + YearLen(y - 1)]
  BY <1>3 DEF YearsBefore
<1> QED BY <1>4

\* That sum is the number of days from FirstYear to the year.
LEMMA YearsBeforeRight ==
  ASSUME NEW k \in Nat
  PROVE  YearsBefore[FirstYear + k] = YearStart(FirstYear + k) - YearStart(FirstYear)
<1> DEFINE S == {i \in Nat : YearsBefore[FirstYear + i] =
                                YearStart(FirstYear + i) - YearStart(FirstYear)}
<1>1. 0 \in S
  BY YearsBeforeEq, YearStep DEF FirstYear
<1>2. ASSUME NEW i \in Nat, i \in S PROVE i + 1 \in S
  <2> DEFINE y == FirstYear + i
  <2>1. y \in Nat /\ FirstYear + (i + 1) = y + 1 /\ ~ (y + 1 <= FirstYear) /\ (y + 1) - 1 = y
    BY DEF FirstYear
  <2>2. YearsBefore[y + 1] = YearsBefore[y] + YearLen(y)
    BY <2>1, YearsBeforeEq
  <2>3. YearStart(y + 1) = YearStart(y) + YearLen(y)
        /\ YearStart(y) \in Int /\ YearStart(FirstYear) \in Int /\ YearLen(y) \in Int
    BY <2>1, YearStep DEF FirstYear
  <2>4. YearsBefore[y] = YearStart(y) - YearStart(FirstYear)
    BY <1>2
  <2>5. YearsBefore[y + 1] = YearStart(y + 1) - YearStart(FirstYear)
    <3> HIDE DEF y
    <3> QED BY <2>2, <2>3, <2>4
  <2> QED BY <2>1, <2>5
<1>3. Nat \subseteq S
  <2> HIDE DEF S
  <2> QED BY <1>1, <1>2, Induction
<1> QED BY <1>3

\* The sum over the months in RTC_Set (rtc.c:141) is the number of days of the
\* year before the month.
LEMMA MonthsBeforeRight ==
  ASSUME NEW y \in Nat, NEW m \in 1 .. 13
  PROVE  MonthsBefore(y, m) = StartOf(y, m)
<1> DEFINE Eq(f) == f = [i \in 1 .. 13 |-> IF i = 1 THEN 0 ELSE f[i - 1] + MonthLen(y, i - 1)]
           g == [i \in 1 .. 13 |-> StartOf(y, i)]
           h == CHOOSE f : Eq(f)
<1>1. ASSUME NEW i \in 1 .. 12
      PROVE  StartOf(y, i) \in Int /\ StartOf(y, i + 1) = StartOf(y, i) + MonthLen(y, i)
  BY LeapRight DEF StartOf, MonthLen, MonthStart, mon_table
<1>2. StartOf(y, 1) = 0
  BY DEF StartOf, MonthStart
<1>3. Eq(g)
  <2> SUFFICES ASSUME NEW i \in 1 .. 13
               PROVE  StartOf(y, i) = IF i = 1 THEN 0 ELSE g[i - 1] + MonthLen(y, i - 1)
    OBVIOUS
  <2>1. CASE i # 1
    <3>1. i - 1 \in 1 .. 12 /\ (i - 1) + 1 = i /\ i - 1 \in 1 .. 13
      BY <2>1
    <3>2. g[i - 1] = StartOf(y, i - 1)
      BY <3>1
    <3> QED BY <3>1, <3>2, <1>1, <2>1
  <2> QED BY <2>1, <1>2
<1>4. Eq(h)
  <2> HIDE DEF g
  <2> SUFFICES \E f : Eq(f)
    OBVIOUS
  <2> QED BY <1>3
<1>5. MonthsBefore(y, m) = h[m]
  BY DEF MonthsBefore
<1>6. h[1] = 0 /\ \A i \in 1 .. 12 : h[i + 1] = h[i] + MonthLen(y, i)
  <2> HIDE DEF h
  <2>1. \A i \in 1 .. 13 : h[i] = IF i = 1 THEN 0 ELSE h[i - 1] + MonthLen(y, i - 1)
    BY <1>4
  <2> QED BY <2>1
<1> HIDE DEF h, g, Eq
<1>7. /\ h[2] = StartOf(y, 2) /\ h[3] = StartOf(y, 3)
      /\ h[4] = StartOf(y, 4) /\ h[5] = StartOf(y, 5)
  BY <1>1, <1>2, <1>6
<1>8. /\ h[6] = StartOf(y, 6) /\ h[7] = StartOf(y, 7)
      /\ h[8] = StartOf(y, 8) /\ h[9] = StartOf(y, 9)
  BY <1>1, <1>7, <1>6
<1>9. /\ h[10] = StartOf(y, 10) /\ h[11] = StartOf(y, 11)
      /\ h[12] = StartOf(y, 12) /\ h[13] = StartOf(y, 13)
  BY <1>1, <1>8, <1>6
<1> QED BY <1>2, <1>5, <1>6, <1>7, <1>8, <1>9

\* The year y, counted from b, in which day n falls.
IsYear(n, b, y) ==
  /\ y \in Nat /\ y >= b
  /\ YearStart(y) - YearStart(b) <= n /\ n < YearStart(y + 1) - YearStart(b)

\* A year starts no earlier than any year before it ends.
LEMMA LaterYear ==
  ASSUME NEW a \in Nat, NEW b \in Nat, a < b
  PROVE  YearStart(a + 1) <= YearStart(b)
<1>1. b - (a + 1) \in Nat /\ (a + 1) + (b - (a + 1)) = b /\ a + 1 \in Nat
  OBVIOUS
<1>2. YearStart(b) >= YearStart(a + 1) + 365 * (b - (a + 1))
  BY <1>1, YearsGrow
<1>3. YearStart(b) \in Int /\ YearStart(a + 1) \in Int
  BY <1>1, YearStep
<1>4. \A p, q \in Int, r \in Nat : p >= q + 365 * r => q <= p
  OBVIOUS
<1> QED BY <1>1, <1>2, <1>3, <1>4

\* Every day falls in a year,
LEMMA YearFound ==
  ASSUME NEW n \in Nat, NEW b \in Nat
  PROVE  \E y : IsYear(n, b, y)
<1> DEFINE S == {y \in Nat : y >= b /\ n < YearStart(y + 1) - YearStart(b)}
<1>1. b + n \in S
  <2>1. b + n \in Nat /\ n + 1 \in Nat /\ b + (n + 1) = (b + n) + 1 /\ b + n >= b
    OBVIOUS
  <2>2. YearStart((b + n) + 1) >= YearStart(b) + 365 * (n + 1)
    <3>1. YearStart(b + (n + 1)) >= YearStart(b) + 365 * (n + 1)
      BY <2>1, YearsGrow
    <3> QED BY <2>1, <3>1
  <2>3. YearStart((b + n) + 1) \in Int /\ YearStart(b) \in Int
    BY <2>1, YearStep
  <2>4. \A p, q \in Int : p >= q + 365 * (n + 1) => n < p - q
    OBVIOUS
  <2> QED BY <2>1, <2>2, <2>3, <2>4
<1>2. PICK y \in S : \A z \in S : ~ (z < y)
  <2>1. S \subseteq Nat /\ S # {}
    BY <1>1
  <2> HIDE DEF S
  <2> QED BY <2>1, Least
<1>3. CASE y = b
  <2>1. YearStart(b) \in Int
    BY YearStep
  <2> QED BY <2>1, <1>2, <1>3 DEF IsYear
<1>4. CASE y # b
  <2>1. y - 1 \in Nat /\ y - 1 >= b /\ (y - 1) + 1 = y /\ y - 1 < y
    BY <1>2, <1>4
  <2>2. ~ (n < YearStart(y) - YearStart(b))
    BY <1>2, <2>1
  <2>3. YearStart(b) \in Int /\ YearStart(y) \in Int
    BY <1>2, YearStep
  <2>4. \A p, q \in Int : ~ (n < p - q) => p - q <= n
    OBVIOUS
  <2> QED BY <1>2, <2>2, <2>3, <2>4 DEF IsYear
<1> QED BY <1>3, <1>4

\* and in only one.
LEMMA YearUnique ==
  ASSUME NEW n \in Nat, NEW b \in Nat, NEW y, NEW z, IsYear(n, b, y), IsYear(n, b, z)
  PROVE  y = z
<1>1. ASSUME NEW u, NEW v, IsYear(n, b, u), IsYear(n, b, v), u < v
      PROVE  FALSE
  <2>1. /\ u \in Nat /\ v \in Nat
        /\ n < YearStart(u + 1) - YearStart(b) /\ YearStart(v) - YearStart(b) <= n
    BY <1>1 DEF IsYear
  <2>2. YearStart(u + 1) <= YearStart(v)
    BY <1>1, <2>1, LaterYear
  <2>3. YearStart(u + 1) \in Int /\ YearStart(v) \in Int /\ YearStart(b) \in Int
    BY <2>1, YearStep
  <2>4. \A p, q, r \in Int : n < p - r /\ q - r <= n => ~ (p <= q)
    OBVIOUS
  <2> QED BY <2>1, <2>2, <2>3, <2>4
<1>2. y \in Nat /\ z \in Nat
  BY DEF IsYear
<1> QED BY <1>1, <1>2

\* The year of day n counted from b, and the days left in it.
YearIn(n, b) == CHOOSE y : IsYear(n, b, y)
DayIn(n, b) == n - (YearStart(YearIn(n, b)) - YearStart(b))

\* The day falls in the first year, or in the year where the rest of it falls:
\* what a turn of the loop over years does.
LEMMA YearInIs ==
  ASSUME NEW n \in Nat, NEW b \in Nat
  PROVE  /\ IsYear(n, b, YearIn(n, b))
         /\ n < YearLen(b) => YearIn(n, b) = b /\ DayIn(n, b) = n
         /\ ~ (n < YearLen(b)) =>
              /\ n - YearLen(b) \in Nat
              /\ YearIn(n - YearLen(b), b + 1) = YearIn(n, b)
              /\ DayIn(n - YearLen(b), b + 1) = DayIn(n, b)
<1>1. IsYear(n, b, YearIn(n, b))
  BY YearFound DEF YearIn
<1>2. /\ YearStart(b) \in Int /\ YearLen(b) \in {365, 366}
      /\ YearStart(b + 1) = YearStart(b) + YearLen(b)
      /\ YearStart(b + 1) \in Int
  BY YearStep
<1>3. CASE n < YearLen(b)
  <2>1. IsYear(n, b, b)
    <3>1. \A p \in Int, l \in {365, 366} : n < l => p - p <= n /\ n < (p + l) - p
      OBVIOUS
    <3>2. b >= b
      OBVIOUS
    <3> QED BY <3>1, <3>2, <1>2, <1>3 DEF IsYear
  <2>2. YearIn(n, b) = b
    BY <1>1, <2>1, YearUnique
  <2>3. \A p \in Int : n - (p - p) = n
    OBVIOUS
  <2> QED BY <1>1, <1>2, <1>3, <2>2, <2>3 DEF DayIn
<1>4. CASE ~ (n < YearLen(b))
  <2> DEFINE k == n - YearLen(b)
             y == YearIn(k, b + 1)
  <2>1. k \in Nat /\ b + 1 \in Nat
    BY <1>2, <1>4
  <2>2. IsYear(k, b + 1, y)
    BY <2>1, YearFound DEF YearIn
  <2>3. y \in Nat /\ y >= b + 1 /\ y >= b /\ YearStart(y) \in Int /\ YearStart(y + 1) \in Int
        /\ YearStart(y) - YearStart(b + 1) <= k /\ k < YearStart(y + 1) - YearStart(b + 1)
    <3>1. y \in Nat /\ y >= b + 1
      BY <2>2 DEF IsYear
    <3> HIDE DEF y
    <3>2. y >= b /\ y + 1 \in Nat
      BY <3>1
    <3> QED BY <3>1, <3>2, <2>2, YearStep DEF IsYear
  <2>4. \A p, q, r \in Int, l \in {365, 366} :
          /\ p - (r + l) <= n - l => p - r <= n
          /\ n - l < q - (r + l) => n < q - r
          /\ (n - l) - (p - (r + l)) = n - (p - r)
    OBVIOUS
  <2>5. IsYear(n, b, y)
    <3> HIDE DEF y
    <3> QED BY <2>3, <2>4, <1>2 DEF IsYear
  <2>6. y = YearIn(n, b)
    BY <1>1, <2>5, YearUnique
  <2>7. DayIn(k, b + 1) = k - (YearStart(y) - (YearStart(b) + YearLen(b)))
    BY <1>2 DEF DayIn
  <2>8. DayIn(n, b) = n - (YearStart(y) - YearStart(b))
    BY <2>6 DEF DayIn
  <2>9. DayIn(k, b + 1) = DayIn(n, b)
    <3> HIDE DEF y
    <3> QED BY <1>2, <2>3, <2>4, <2>7, <2>8
  <2> QED BY <1>1, <1>4, <2>1, <2>6, <2>9
<1> QED BY <1>1, <1>3, <1>4, <1>2

\* The loop over years in RTC_Get (rtc.c:233) satisfies its equation.
LEMMA YearLoopEq ==
  \A n, y \in Nat :
    YearLoop[<<n, y>>] =
      IF n < YearLen(y) THEN <<y, n>> ELSE YearLoop[<<n - YearLen(y), y + 1>>]
<1> DEFINE Body(f, s) == IF s[1] < YearLen(s[2]) THEN <<s[2], s[1]>>
                         ELSE f[<<s[1] - YearLen(s[2]), s[2] + 1>>]
           g == [s \in Nat \X Nat |-> <<YearIn(s[1], s[2]), DayIn(s[1], s[2])>>]
<1>1. ASSUME NEW n \in Nat, NEW y \in Nat
      PROVE  g[<<n, y>>] = Body(g, <<n, y>>)
  <2>1. CASE n < YearLen(y)
    BY <2>1, YearInIs
  <2>2. CASE ~ (n < YearLen(y))
    <3>1. n - YearLen(y) \in Nat /\ y + 1 \in Nat
      BY <2>2, YearInIs
    <3>2. g[<<n - YearLen(y), y + 1>>] = <<YearIn(n, y), DayIn(n, y)>>
      BY <2>2, <3>1, YearInIs
    <3>3. g[<<n, y>>] = <<YearIn(n, y), DayIn(n, y)>>
      OBVIOUS
    <3> HIDE DEF g
    <3> QED BY <2>2, <3>2, <3>3
  <2> QED BY <2>1, <2>2
<1>2. g = [s \in Nat \X Nat |-> Body(g, s)]
  <2>1. g = [s \in Nat \X Nat |-> g[s]]
    OBVIOUS
  <2>2. \A s \in Nat \X Nat : g[s] = Body(g, s)
    <3> HIDE DEF g, Body
    <3> QED BY <1>1
  <2> HIDE DEF g, Body
  <2> QED BY <2>1, <2>2
<1>3. YearLoop = [s \in Nat \X Nat |-> Body(YearLoop, s)]
  <2>1. \E f : f = [s \in Nat \X Nat |-> Body(f, s)]
    <3> HIDE DEF g
    <3> QED BY <1>2
  <2> QED BY <2>1 DEF YearLoop
<1> QED BY <1>3

\* That loop ends with the year of the day, and the days left in it.
LEMMA YearLoopRight ==
  ASSUME NEW n \in Nat, NEW b \in Nat
  PROVE  YearLoop[<<n, b>>] = <<YearIn(n, b), DayIn(n, b)>>
<1> DEFINE Ended(m) == \A y \in Nat : YearLoop[<<m, y>>] = <<YearIn(m, y), DayIn(m, y)>>
           S == {i \in Nat : \A m \in Nat : m < i => Ended(m)}
<1>1. 0 \in S
  OBVIOUS
<1>2. ASSUME NEW i \in Nat, i \in S PROVE i + 1 \in S
  <2> SUFFICES ASSUME NEW m \in Nat, m < i + 1, NEW y \in Nat
               PROVE  YearLoop[<<m, y>>] = <<YearIn(m, y), DayIn(m, y)>>
    OBVIOUS
  <2>1. CASE m < YearLen(y)
    BY <2>1, YearLoopEq, YearInIs
  <2>2. CASE ~ (m < YearLen(y))
    <3>1. m - YearLen(y) \in Nat /\ m - YearLen(y) < i
      <4>1. YearLen(y) \in {365, 366}
        BY YearStep
      <4> QED BY <2>2, <4>1
    <3>2. YearLoop[<<m - YearLen(y), y + 1>>] =
            <<YearIn(m - YearLen(y), y + 1), DayIn(m - YearLen(y), y + 1)>>
      BY <1>2, <3>1
    <3> QED BY <2>2, <3>2, YearLoopEq, YearInIs
  <2> QED BY <2>1, <2>2
<1>3. Nat \subseteq S
  <2> HIDE DEF S
  <2> QED BY <1>1, <1>2, Induction
<1>4. n + 1 \in S /\ n < n + 1
  BY <1>3
<1> QED BY <1>4

\* The month, from m on, in which day n falls; 13 when none of them has it.
IsMonth(y, n, m, k) ==
  /\ k \in m .. 13
  /\ StartOf(y, k) - StartOf(y, m) <= n
  /\ k = 13 \/ n < StartOf(y, k + 1) - StartOf(y, m)

\* Months start on a day.
LEMMA MonthNat ==
  ASSUME NEW y \in Nat, NEW m \in 1 .. 13
  PROVE  StartOf(y, m) \in Nat
  BY DEF StartOf, MonthStart

\* A month starts as many days after the one before it as that one is long.
LEMMA MonthStep ==
  ASSUME NEW y \in Nat, NEW m \in 1 .. 12
  PROVE  /\ MonthLen(y, m) \in 28 .. 31
         /\ StartOf(y, m + 1) = StartOf(y, m) + MonthLen(y, m)
  BY LeapRight DEF StartOf, MonthLen, MonthStart, mon_table

\* A later month starts later.
LEMMA MonthsGrow ==
  ASSUME NEW y \in Nat, NEW m \in 1 .. 13, NEW l \in 1 .. 13, m <= l
  PROVE  StartOf(y, m) <= StartOf(y, l)
  BY DEF StartOf, MonthStart

\* Days fall in one month only,
LEMMA MonthUnique ==
  ASSUME NEW y \in Nat, NEW n \in Nat, NEW m \in 1 .. 13, NEW k, NEW l,
         IsMonth(y, n, m, k), IsMonth(y, n, m, l)
  PROVE  k = l
<1>1. ASSUME NEW u, NEW v, IsMonth(y, n, m, u), IsMonth(y, n, m, v), u < v
      PROVE  FALSE
  <2>1. u \in 1 .. 12 /\ v \in 1 .. 13 /\ u + 1 \in 1 .. 13 /\ u + 1 <= v
        /\ n < StartOf(y, u + 1) - StartOf(y, m) /\ StartOf(y, v) - StartOf(y, m) <= n
    BY <1>1 DEF IsMonth
  <2>2. StartOf(y, u + 1) <= StartOf(y, v)
    BY <2>1, MonthsGrow
  <2>3. StartOf(y, u + 1) \in Nat /\ StartOf(y, v) \in Nat /\ StartOf(y, m) \in Nat
    BY <2>1, MonthNat
  <2> QED BY <2>1, <2>2, <2>3
<1>2. k \in Nat /\ l \in Nat
  BY DEF IsMonth
<1> QED BY <1>1, <1>2

\* and in some month, 13 included.
LEMMA MonthFound ==
  ASSUME NEW y \in Nat, NEW n \in Nat, NEW m \in 1 .. 13
  PROVE  \E k : IsMonth(y, n, m, k)
<1> DEFINE S == {k \in m .. 13 : k = 13 \/ n < StartOf(y, k + 1) - StartOf(y, m)}
<1>1. S \subseteq Nat /\ S # {}
  <2>1. 13 \in S
    OBVIOUS
  <2> QED BY <2>1
<1>2. PICK k \in S : \A l \in S : ~ (l < k)
  <2> HIDE DEF S
  <2> QED BY <1>1, Least
<1>3. k \in 1 .. 13 /\ StartOf(y, m) \in Nat /\ StartOf(y, k) \in Nat
  <2>1. k \in 1 .. 13
    BY <1>2
  <2> QED BY <2>1, MonthNat
<1>4. CASE k = m
  BY <1>2, <1>3, <1>4 DEF IsMonth
<1>5. CASE k # m
  <2>1. k - 1 \in m .. 12 /\ (k - 1) + 1 = k /\ k - 1 < k
    BY <1>2, <1>5
  <2>2. ~ (n < StartOf(y, k) - StartOf(y, m))
    BY <1>2, <2>1
  <2> QED BY <1>2, <1>3, <2>2 DEF IsMonth
<1> QED BY <1>4, <1>5

\* The month and the date of day n counted from month m.
MonthIn(y, n, m) == CHOOSE k : IsMonth(y, n, m, k)
DateIn(y, n, m) == n - (StartOf(y, MonthIn(y, n, m)) - StartOf(y, m)) + 1

\* The loop ends with month m.
Ends(y, n, m) == n < 28 \/ m = 13 \/ n < MonthLen(y, m)

\* The month of a day is one that it falls in.
LEMMA MonthInIs ==
  ASSUME NEW y \in Nat, NEW n \in Nat, NEW m \in 1 .. 13
  PROVE  IsMonth(y, n, m, MonthIn(y, n, m))
  BY MonthFound DEF MonthIn

\* Where the loop ends, the day falls in the month it has come to.
LEMMA MonthStops ==
  ASSUME NEW y \in Nat, NEW n \in Nat, NEW m \in 1 .. 13, Ends(y, n, m)
  PROVE  MonthIn(y, n, m) = m /\ DateIn(y, n, m) = n + 1
<1>1. StartOf(y, m) \in Nat
  BY MonthNat
<1>2. m # 13 => n < StartOf(y, m + 1) - StartOf(y, m)
  <2> SUFFICES ASSUME m # 13 PROVE n < StartOf(y, m + 1) - StartOf(y, m)
    OBVIOUS
  <2>1. m \in 1 .. 12
    OBVIOUS
  <2>2. MonthLen(y, m) \in 28 .. 31 /\ StartOf(y, m + 1) = StartOf(y, m) + MonthLen(y, m)
    BY <2>1, MonthStep
  <2> QED BY <2>2, <1>1 DEF Ends
<1>3. IsMonth(y, n, m, m)
  BY <1>1, <1>2 DEF IsMonth
<1>4. MonthIn(y, n, m) = m
  BY <1>3, MonthInIs, MonthUnique
<1> QED BY <1>1, <1>4 DEF DateIn

\* Where it goes on, the day falls in the month that the rest of it falls in.
LEMMA MonthTurns ==
  ASSUME NEW y \in Nat, NEW n \in Nat, NEW m \in 1 .. 13, ~ Ends(y, n, m)
  PROVE  LET j == n - MonthLen(y, m)
         IN /\ j \in Nat /\ m + 1 \in 1 .. 13
            /\ MonthIn(y, j, m + 1) = MonthIn(y, n, m)
            /\ DateIn(y, j, m + 1) = DateIn(y, n, m)
<1> DEFINE j == n - MonthLen(y, m)
           k == MonthIn(y, j, m + 1)
<1>1. m \in 1 .. 12 /\ m + 1 \in 1 .. 13 /\ StartOf(y, m) \in Nat
  <2>1. m \in 1 .. 12 /\ m + 1 \in 1 .. 13
    BY DEF Ends
  <2>2. StartOf(y, m) \in Nat
    BY MonthNat
  <2> QED BY <2>1, <2>2
<1>2. MonthLen(y, m) \in 28 .. 31 /\ StartOf(y, m + 1) = StartOf(y, m) + MonthLen(y, m)
  BY <1>1, MonthStep
<1>3. j \in Nat
  BY <1>2 DEF Ends
<1>4. IsMonth(y, j, m + 1, k)
  BY <1>1, <1>3, MonthInIs
<1> HIDE DEF k
<1>5. k \in (m + 1) .. 13 /\ StartOf(y, k) \in Nat /\ (k # 13 => StartOf(y, k + 1) \in Nat)
  <2>1. k \in (m + 1) .. 13
    BY <1>4 DEF IsMonth
  <2>2. k \in 1 .. 13 /\ (k # 13 => k + 1 \in 1 .. 13)
    BY <1>1, <2>1
  <2> QED BY <2>1, <2>2, MonthNat
<1>6. IsMonth(y, n, m, k)
  <2>1. /\ StartOf(y, k) - StartOf(y, m + 1) <= j
        /\ k = 13 \/ j < StartOf(y, k + 1) - StartOf(y, m + 1)
    BY <1>4 DEF IsMonth
  <2> QED BY <2>1, <1>1, <1>2, <1>5 DEF IsMonth
<1>7. k = MonthIn(y, n, m)
  BY <1>6, MonthInIs, MonthUnique
<1>8. DateIn(y, j, m + 1) = j - (StartOf(y, k) - StartOf(y, m + 1)) + 1
  BY DEF DateIn, k
<1>9. DateIn(y, n, m) = n - (StartOf(y, k) - StartOf(y, m)) + 1
  BY <1>7 DEF DateIn
<1>10. DateIn(y, j, m + 1) = DateIn(y, n, m)
  BY <1>1, <1>2, <1>5, <1>8, <1>9
<1> QED BY <1>1, <1>3, <1>7, <1>10 DEF k

\* The loop over months in RTC_Get (rtc.c:245) ends with the month and the date
\* of the day left.
LEMMA MonthLoopRight ==
  ASSUME NEW y \in Nat, NEW left \in Nat
  PROVE  MonthLoop(y, left) = <<MonthIn(y, left, 1), DateIn(y, left, 1)>>
<1> DEFINE Body(f, s) == IF s[1] < 28 \/ s[2] = 13 \/ s[1] < MonthLen(y, s[2])
                         THEN <<s[2], s[1] + 1>>
                         ELSE f[<<s[1] - MonthLen(y, s[2]), s[2] + 1>>]
           g == [s \in Nat \X (1 .. 13) |-> <<MonthIn(y, s[1], s[2]), DateIn(y, s[1], s[2])>>]
           loop == CHOOSE f : f = [s \in Nat \X (1 .. 13) |-> Body(f, s)]
<1>1. ASSUME NEW n \in Nat, NEW m \in 1 .. 13
      PROVE  g[<<n, m>>] = Body(g, <<n, m>>)
  <2>1. \A i \in Nat, j \in 1 .. 13 : g[<<i, j>>] = <<MonthIn(y, i, j), DateIn(y, i, j)>>
    OBVIOUS
  <2> HIDE DEF g
  <2>2. CASE Ends(y, n, m)
    <3>1. MonthIn(y, n, m) = m /\ DateIn(y, n, m) = n + 1
      BY <2>2, MonthStops
    <3> QED BY <2>1, <2>2, <3>1 DEF Ends
  <2>3. CASE ~ Ends(y, n, m)
    <3> DEFINE k == n - MonthLen(y, m)
    <3>1. /\ k \in Nat /\ m + 1 \in 1 .. 13
          /\ MonthIn(y, k, m + 1) = MonthIn(y, n, m) /\ DateIn(y, k, m + 1) = DateIn(y, n, m)
      BY <2>3, MonthTurns
    <3> HIDE DEF k
    <3>2. g[<<k, m + 1>>] = g[<<n, m>>]
      BY <2>1, <3>1
    <3> QED BY <2>3, <3>2 DEF Ends, k
  <2> QED BY <2>2, <2>3
<1>2. g = [s \in Nat \X (1 .. 13) |-> Body(g, s)]
  <2>1. g = [s \in Nat \X (1 .. 13) |-> g[s]]
    OBVIOUS
  <2>2. ASSUME NEW s \in Nat \X (1 .. 13) PROVE g[s] = Body(g, s)
    <3>1. PICK n \in Nat, m \in 1 .. 13 : s = <<n, m>>
      OBVIOUS
    <3> HIDE DEF g, Body
    <3> QED BY <1>1, <3>1
  <2> HIDE DEF g, Body
  <2> QED BY <2>1, <2>2
<1>3. loop = [s \in Nat \X (1 .. 13) |-> Body(loop, s)]
  <2>1. \E f : f = [s \in Nat \X (1 .. 13) |-> Body(f, s)]
    <3> HIDE DEF g
    <3> QED BY <1>2
  <2> HIDE DEF Body
  <2> QED BY <2>1
<1>4. MonthLoop(y, left) = loop[<<left, 1>>]
  BY DEF MonthLoop
<1>5. ASSUME NEW n \in Nat, NEW m \in 1 .. 13
      PROVE  /\ Ends(y, n, m) => loop[<<n, m>>] = <<m, n + 1>>
             /\ ~ Ends(y, n, m) =>
                  loop[<<n, m>>] = loop[<<n - MonthLen(y, m), m + 1>>]
  <2> HIDE DEF loop
  <2>1. <<n, m>> \in Nat \X (1 .. 13) /\ <<n, m>>[1] = n /\ <<n, m>>[2] = m
    OBVIOUS
  <2>2. loop[<<n, m>>] = Body(loop, <<n, m>>)
    <3> HIDE DEF Body
    <3> QED BY <1>3, <2>1
  <2> QED BY <2>2 DEF Ends
<1> HIDE DEF loop, g, Body
<1> DEFINE Good(n, m) == loop[<<n, m>>] = <<MonthIn(y, n, m), DateIn(y, n, m)>>
           S == {i \in Nat : \A n \in Nat, m \in 1 .. 13 : m + i >= 13 => Good(n, m)}
<1>6. ASSUME NEW n \in Nat, NEW m \in 1 .. 13
      PROVE  \/ Good(n, m)
             \/ /\ m # 13 /\ n - MonthLen(y, m) \in Nat /\ m + 1 \in 1 .. 13
                /\ Good(n - MonthLen(y, m), m + 1) => Good(n, m)
  <2>1. CASE Ends(y, n, m)
    <3>1. loop[<<n, m>>] = <<m, n + 1>>
      BY <2>1, <1>5
    <3>2. MonthIn(y, n, m) = m /\ DateIn(y, n, m) = n + 1
      <4> HIDE DEF Good
      <4> QED BY <2>1, MonthStops
    <3> QED BY <3>1, <3>2
  <2>2. CASE ~ Ends(y, n, m)
    <3> DEFINE k == n - MonthLen(y, m)
    <3>1. loop[<<n, m>>] = loop[<<k, m + 1>>]
      BY <2>2, <1>5
    <3>2. m # 13
      BY <2>2 DEF Ends
    <3>3. k \in Nat /\ m + 1 \in 1 .. 13
          /\ MonthIn(y, k, m + 1) = MonthIn(y, n, m) /\ DateIn(y, k, m + 1) = DateIn(y, n, m)
      <4> HIDE DEF Good
      <4> QED BY <2>2, MonthTurns
    <3> HIDE DEF k
    <3>4. Good(k, m + 1) => Good(n, m)
      BY <3>1, <3>3
    <3> QED BY <3>2, <3>3, <3>4 DEF k
  <2> QED BY <2>1, <2>2
<1>7. 0 \in S
  <2> HIDE DEF Good
  <2> QED BY <1>6
<1>8. ASSUME NEW i \in Nat, i \in S PROVE i + 1 \in S
  <2> HIDE DEF Good
  <2> SUFFICES ASSUME NEW n \in Nat, NEW m \in 1 .. 13, m + (i + 1) >= 13
               PROVE  Good(n, m)
    OBVIOUS
  <2>1. (m + 1) + i >= 13
    OBVIOUS
  <2> QED BY <1>6, <1>8, <2>1
<1>9. Nat \subseteq S
  <2> HIDE DEF S
  <2> QED BY <1>7, <1>8, Induction
<1>10. Good(left, 1)
  <2> HIDE DEF Good
  <2>1. 12 \in S
    BY <1>9
  <2> QED BY <2>1
<1> QED BY <1>4, <1>10

\* The reference, in the terms of the loops.
LEMMA DayNumberIs ==
  ASSUME NEW y \in Nat, NEW m \in 1 .. 13, NEW d \in Int
  PROVE  DayNumber(y, m, d) = YearStart(y) - YearStart(FirstYear) + StartOf(y, m) + d - 1
<1>1. YearStart(FirstYear) = 365 * 1970 + LeapsTo(1969)
  BY DEF YearStart, FirstYear
<1>2. LeapsTo(1969) \in Int
  BY DEF LeapsTo
<1>3. LeapsTo(y - 1) \in Int
  BY LeapStep
<1>4. StartOf(y, m) \in Nat
  BY MonthNat
<1> QED BY <1>1, <1>2, <1>3, <1>4 DEF DayNumber, YearStart

\* RTC_Set counts the days before a date as the calendar does.
LEMMA SetIsDay ==
  ASSUME NEW y, NEW m, NEW d, IsDate(y, m, d)
  PROVE  DaysBefore(y, m, d) = DayNumber(y, m, d)
<1>1. /\ y \in Nat /\ m \in 1 .. 13 /\ d \in Int
      /\ y - FirstYear \in Nat /\ FirstYear + (y - FirstYear) = y
  <2>1. y \in Nat /\ m \in 1 .. 12 /\ m + 1 \in 1 .. 13 /\ y - FirstYear \in Nat
    BY DEF IsDate, FirstYear, LastYear
  <2>2. m \in 1 .. 13
    BY <2>1
  <2>3. StartOf(y, m) \in Nat /\ StartOf(y, m + 1) \in Nat
    BY <2>1, <2>2, MonthNat
  <2> QED BY <2>1, <2>2, <2>3 DEF IsDate, FirstYear
<1>2. YearsBefore[y] = YearStart(y) - YearStart(FirstYear)
  BY <1>1, YearsBeforeRight
<1>3. MonthsBefore(y, m) = StartOf(y, m)
  BY <1>1, MonthsBeforeRight
<1> QED BY <1>1, <1>2, <1>3, DayNumberIs DEF DaysBefore

\* RTC_Get takes a day number to its date, and to a legal year when it is
\* before 2100.
LEMMA DateRight ==
  ASSUME NEW n \in Nat
  PROVE  LET y == YearLoop[<<n, FirstYear>>]
             m == MonthLoop(y[1], y[2])
         IN /\ y[1] \in Nat /\ y[1] >= FirstYear /\ y[2] \in 0 .. YearLen(y[1]) - 1
            /\ m[1] \in 1 .. 12 /\ m[2] \in 1 .. StartOf(y[1], m[1] + 1) - StartOf(y[1], m[1])
            /\ m[2] \in 1 .. 31
            /\ DayNumber(y[1], m[1], m[2]) = n
            /\ n < DayLimit => y[1] <= LastYear
<1> DEFINE y == YearIn(n, FirstYear)
           r == DayIn(n, FirstYear)
           m == MonthIn(y, r, 1)
           d == DateIn(y, r, 1)
<1>1. FirstYear \in Nat /\ YearLoop[<<n, FirstYear>>] = <<y, r>>
  BY YearLoopRight DEF FirstYear
<1>2. y \in Nat /\ y >= FirstYear /\ r = n - (YearStart(y) - YearStart(FirstYear))
      /\ YearStart(y) - YearStart(FirstYear) <= n /\ n < YearStart(y + 1) - YearStart(FirstYear)
  BY <1>1, YearInIs DEF IsYear, DayIn
<1> HIDE DEF y, r
<1>3. YearStart(y) \in Int /\ YearStart(FirstYear) \in Int /\ YearLen(y) \in {365, 366}
      /\ YearStart(y + 1) = YearStart(y) + YearLen(y)
  BY <1>1, <1>2, YearStep
<1>4. r \in 0 .. YearLen(y) - 1
  BY <1>2, <1>3
<1>5. MonthLoop(y, r) = <<m, d>> /\ IsMonth(y, r, 1, m)
  BY <1>2, <1>4, <1>3, MonthLoopRight, MonthInIs
<1>6. d = r - (StartOf(y, m) - StartOf(y, 1)) + 1
  BY DEF DateIn
<1> HIDE DEF m, d
<1>7. StartOf(y, 1) = 0 /\ StartOf(y, 13) = YearLen(y)
  BY <1>2, LeapRight DEF StartOf, MonthStart, YearLen
<1>8. m \in 1 .. 12
  BY <1>3, <1>4, <1>5, <1>7 DEF IsMonth
<1>9. StartOf(y, m) \in Nat /\ StartOf(y, m + 1) = StartOf(y, m) + MonthLen(y, m)
      /\ MonthLen(y, m) \in 28 .. 31
  <2>1. m \in 1 .. 13
    BY <1>8
  <2>2. StartOf(y, m) \in Nat
    BY <1>2, <2>1, MonthNat
  <2> QED BY <1>2, <1>8, <2>2, MonthStep
<1>10. StartOf(y, m) <= r /\ r < StartOf(y, m + 1)
  BY <1>4, <1>3, <1>5, <1>7, <1>8, <1>9 DEF IsMonth
<1>11. d \in 1 .. StartOf(y, m + 1) - StartOf(y, m) /\ d \in 1 .. 31
  BY <1>3, <1>4, <1>6, <1>7, <1>9, <1>10
<1>12. DayNumber(y, m, d) = n
  <2>1. DayNumber(y, m, d) = YearStart(y) - YearStart(FirstYear) + StartOf(y, m) + d - 1
    BY <1>2, <1>8, <1>11, DayNumberIs
  <2> QED BY <2>1, <1>2, <1>3, <1>6, <1>7, <1>9
<1>13. ASSUME n < DayLimit, y > LastYear  PROVE FALSE
  <2>1. LastYear \in Nat /\ LastYear + 1 \in Nat /\ LastYear < y
    BY <1>2, <1>13 DEF LastYear
  <2>2. YearStart(LastYear + 1) <= YearStart(y) /\ YearStart(LastYear + 1) \in Int
    BY <1>2, <2>1, LaterYear, YearStep
  <2>3. DayNumber(LastYear + 1, 1, 1) =
          YearStart(LastYear + 1) - YearStart(FirstYear) + StartOf(LastYear + 1, 1) + 1 - 1
    BY <2>1, DayNumberIs
  <2>4. StartOf(LastYear + 1, 1) = 0
    BY DEF StartOf, MonthStart
  <2> QED BY <1>2, <1>3, <1>13, <2>2, <2>3, <2>4 DEF DayLimit
<1>14. n < DayLimit => y <= LastYear
  BY <1>2, <1>13 DEF LastYear
<1> QED BY <1>1, <1>2, <1>4, <1>5, <1>8, <1>11, <1>12, <1>14

\* RTC_Get_Week (rtc.c:273) tells the day of the week of every date from 1970
\* to 2099: it lags no century but 1900, and 2000 was a leap year.
LEMMA WeekRight ==
  ASSUME NEW y \in FirstYear .. LastYear, NEW m \in 1 .. 12, NEW d \in Nat
  PROVE  RTC_Get_Week(y, m, d) = (DayNumber(y, m, d) + 4) % 7
<1>1. y \in 1970 .. 2099
  BY DEF FirstYear, LastYear
<1> DEFINE l == y - 1900
           a == IF Leap(y) /\ m > 2 THEN 1 ELSE 0
           b == IF Leap(y) /\ m < 3 THEN 1 ELSE 0
<1>2. (y % 100) + (IF y \div 100 > 19 THEN 100 ELSE 0) = l
  BY <1>1
<1>3. l % 4 = 0 <=> Leap(y)
  BY <1>1 DEF Leap
<1>4. LeapsTo(y - 1) = (y - 1) \div 4 - 15 /\ LeapsTo(1969) = 477
  BY <1>1 DEF LeapsTo
<1>5. RTC_Get_Week(y, m, d) = (((l + l \div 4) % 7) + d + table_week[m] - b) % 7
  BY <1>2, <1>3 DEF RTC_Get_Week
<1> DEFINE q == <<0, 4, 8, 12, 17, 21, 25, 30, 34, 39, 43, 47>>[m]
<1>6. q \in Int /\ table_week[m] \in Nat /\ MonthStart[m] = table_week[m] + 7 * q
  BY DEF MonthStart, table_week
<1>7. StartOf(y, m) = table_week[m] + 7 * q + a
  BY <1>6 DEF StartOf
<1>8. (y - 1) \div 4 = l \div 4 + 475 - (a + b) /\ a \in {0, 1} /\ b \in {0, 1}
  <2>1. (y - 1) \div 4 = l \div 4 + 475 - (IF l % 4 = 0 THEN 1 ELSE 0)
    BY <1>1
  <2> QED BY <1>3, <2>1
<1> DEFINE x == l + l \div 4
           r == d + table_week[m] - b
<1>9. DayNumber(y, m, d) + 4 = x + r + 7 * (52 * l + q - 3652)
  <2> HIDE DEF q, a, b
  <2>1. DayNumber(y, m, d) =
          365 * (l - 70) + (l \div 4 + 475 - (a + b) - 15) - 477
            + (table_week[m] + 7 * q + a) + d - 1
    BY <1>1, <1>4, <1>6, <1>7, <1>8 DEF DayNumber
  <2>2. l \in Nat /\ l \div 4 \in Nat
    BY <1>1
  <2> HIDE DEF l
  <2> QED BY <1>6, <1>8, <2>1, <2>2
<1>10. x \in Int /\ r \in Int /\ 52 * l + q - 3652 \in Int
  BY <1>1, <1>6, <1>8
<1>11. ASSUME NEW u \in Int, NEW v \in Int, NEW w \in Int
       PROVE  ((u % 7) + v) % 7 = (u + v + 7 * w) % 7
  OBVIOUS
<1>12. RTC_Get_Week(y, m, d) = ((x % 7) + r) % 7
  <2>1. x % 7 \in Int
    BY <1>10
  <2> HIDE DEF x, a, b
  <2> QED BY <1>5, <1>6, <1>8, <2>1 DEF x
<1> DEFINE w == 52 * l + q - 3652
<1> HIDE DEF x, r, w
<1>13. ((x % 7) + r) % 7 = (x + r + 7 * w) % 7
  BY <1>10, <1>11 DEF w
<1>14. DayNumber(y, m, d) + 4 = x + r + 7 * w
  BY <1>9 DEF w
<1> QED BY <1>12, <1>13, <1>14

\* Legal dates are not before 1970.
LEMMA DaysNat ==
  ASSUME NEW y, NEW m, NEW d, IsDate(y, m, d)
  PROVE  DayNumber(y, m, d) \in Nat
<1>1. y \in Nat /\ m \in 1 .. 12 /\ m \in 1 .. 13 /\ m + 1 \in 1 .. 13 /\ FirstYear \in Nat
      /\ y - FirstYear \in Nat /\ FirstYear + (y - FirstYear) = y
  BY DEF IsDate, FirstYear, LastYear
<1>2. StartOf(y, m) \in Nat
  BY <1>1, MonthNat
<1>3. StartOf(y, m + 1) \in Nat
  BY <1>1, MonthNat
<1>4. d \in Nat /\ d >= 1
  BY <1>2, <1>3 DEF IsDate
<1>5. DayNumber(y, m, d) = YearStart(y) - YearStart(FirstYear) + StartOf(y, m) + d - 1
  BY <1>1, <1>4, DayNumberIs
<1>6. YearStart(y) >= YearStart(FirstYear) + 365 * (y - FirstYear)
  BY <1>1, YearsGrow
<1>7. YearStart(y) \in Int /\ YearStart(FirstYear) \in Int
  BY <1>1, YearStep
<1>8. \A p, q \in Int, r \in Nat : p >= q + 365 * r => p - q \in Nat
  OBVIOUS
<1>9. YearStart(y) - YearStart(FirstYear) \in Nat
  BY <1>1, <1>6, <1>7, <1>8
<1> QED BY <1>2, <1>4, <1>5, <1>7, <1>9

\* Any days left within a year end in one of 13 months, on a day that months have.
LEMMA MonthTypes ==
  ASSUME NEW y \in Nat, NEW r \in 0 .. 365
  PROVE  MonthLoop(y, r)[1] \in 1 .. 13 /\ MonthLoop(y, r)[2] \in 1 .. 31
<1> DEFINE m == MonthIn(y, r, 1)
<1>1. MonthLoop(y, r) = <<m, DateIn(y, r, 1)>> /\ IsMonth(y, r, 1, m)
  <2>1. r \in Nat
    OBVIOUS
  <2> QED BY <2>1, MonthLoopRight, MonthInIs
<1>2. DateIn(y, r, 1) = r - (StartOf(y, m) - StartOf(y, 1)) + 1
  BY DEF DateIn
<1> HIDE DEF m
<1>3. m \in 1 .. 13 /\ StartOf(y, m) - StartOf(y, 1) <= r
      /\ (m = 13 \/ r < StartOf(y, m + 1) - StartOf(y, 1))
  BY <1>1 DEF IsMonth
<1>4. StartOf(y, 1) = 0 /\ StartOf(y, 13) \in {365, 366}
  BY DEF StartOf, MonthStart
<1>5. StartOf(y, m) \in Nat
  BY <1>3, MonthNat
<1>6. m # 13 => /\ StartOf(y, m + 1) = StartOf(y, m) + MonthLen(y, m)
                /\ MonthLen(y, m) \in 28 .. 31
  <2> SUFFICES ASSUME m # 13
               PROVE  /\ StartOf(y, m + 1) = StartOf(y, m) + MonthLen(y, m)
                      /\ MonthLen(y, m) \in 28 .. 31
    OBVIOUS
  <2>1. m \in 1 .. 12
    BY <1>3
  <2> QED BY <2>1, MonthStep
<1>7. DateIn(y, r, 1) \in 1 .. 31
  <2>1. CASE m = 13
    BY <2>1, <1>2, <1>3, <1>4
  <2>2. CASE m # 13
    BY <2>2, <1>2, <1>3, <1>4, <1>5, <1>6
  <2> QED BY <2>1, <2>2
<1> QED BY <1>1, <1>3, <1>7

\* A day of the week is one of 7, whatever the month.
LEMMA WeekTypes ==
  ASSUME NEW y \in Nat, NEW m \in 1 .. 13, NEW d \in Nat
  PROVE  Weeks(y, m, d) \subseteq 0 .. 6 /\ Weeks(y, m, d) # {}
<1>1. CASE m = 13
  BY <1>1 DEF Weeks
<1>2. CASE m \in 1 .. 12
  <2> DEFINE l == (y % 100) + IF y \div 100 > 19 THEN 100 ELSE 0
             b == IF l % 4 = 0 /\ m < 3 THEN 1 ELSE 0
             x == ((l + l \div 4) % 7) + d + table_week[m] - b
  <2>1. table_week[m] \in Nat
    BY <1>2 DEF table_week
  <2>2. (l + l \div 4) % 7 \in Int /\ b \in Int
    OBVIOUS
  <2>3. x \in Int
    <3> HIDE DEF l, b
    <3> QED BY <2>1, <2>2
  <2>4. RTC_Get_Week(y, m, d) = x % 7
    BY DEF RTC_Get_Week
  <2> HIDE DEF x
  <2>5. x % 7 \in 0 .. 6
    BY <2>3
  <2> QED BY <1>2, <2>4, <2>5 DEF Weeks
<1> QED BY <1>1, <1>2

\* What RTC_Get writes for a day, in one go or in steps,
LEMMA DayLoops ==
  ASSUME NEW n \in Nat
  PROVE  LET D == DateOfDay(n)
             Y == YearLoop[<<n, FirstYear>>]
         IN /\ Y[1] = D.year /\ Y[2] \in 0 .. 365
            /\ MonthLoop(D.year, Y[2])[1] = D.month
            /\ MonthLoop(D.year, Y[2])[2] = D.date
<1> DEFINE Y == YearLoop[<<n, FirstYear>>]
           M == MonthLoop(Y[1], Y[2])
<1>1. Y[1] \in Nat /\ Y[2] \in 0 .. YearLen(Y[1]) - 1
  BY DateRight
<1>2. DateOfDay(n) = [year |-> Y[1], month |-> M[1], date |-> M[2]]
  BY DEF DateOfDay
<1> HIDE DEF Y
<1>3. YearLen(Y[1]) \in {365, 366}
  BY <1>1, YearStep
<1>4. Y[2] \in 0 .. 365
  BY <1>1, <1>3
<1> QED BY <1>2, <1>4 DEF Y

\* is a date that there is,
LEMMA DayDate ==
  ASSUME NEW n \in Nat
  PROVE  /\ DateOfDay(n) \in [year : Nat, month : 1 .. 12, date : 1 .. 31]
         /\ DateOfDay(n).month \in 1 .. 12
<1> DEFINE Y == YearLoop[<<n, FirstYear>>]
           M == MonthLoop(Y[1], Y[2])
<1>1. Y[1] \in Nat /\ M[1] \in 1 .. 12 /\ M[2] \in 1 .. 31
  BY DateRight
<1>2. DateOfDay(n) = [year |-> Y[1], month |-> M[1], date |-> M[2]]
  BY DEF DateOfDay
<1> HIDE DEF Y, M
<1> QED BY <1>1, <1>2

\* and the one of that day.
LEMMA DayIs ==
  ASSUME NEW n \in Nat, n < DayLimit
  PROVE  LET D == DateOfDay(n)
         IN IsDayOf(n, D.year, D.month, D.date, RTC_Get_Week(D.year, D.month, D.date))
<1> DEFINE Y == YearLoop[<<n, FirstYear>>]
           M == MonthLoop(Y[1], Y[2])
           y == Y[1]
           m == M[1]
           d == M[2]
<1>1. /\ y \in Nat /\ y >= FirstYear /\ y <= LastYear
      /\ m \in 1 .. 12 /\ d \in 1 .. StartOf(y, m + 1) - StartOf(y, m) /\ d \in 1 .. 31
      /\ DayNumber(y, m, d) = n
  BY DateRight
<1>2. DateOfDay(n) = [year |-> y, month |-> m, date |-> d]
  BY DEF DateOfDay
<1> HIDE DEF y, m, d
<1>3. y \in FirstYear .. LastYear /\ d \in Nat
  BY <1>1 DEF FirstYear, LastYear
<1>4. RTC_Get_Week(y, m, d) = (n + 4) % 7
  BY <1>1, <1>3, WeekRight
<1>5. IsDayOf(n, y, m, d, RTC_Get_Week(y, m, d))
  BY <1>1, <1>3, <1>4 DEF IsDayOf, IsDate
<1> QED BY <1>2, <1>5

\* Quotient and remainder.
LEMMA DivMod ==
  ASSUME NEW c \in Nat, NEW b \in Nat \ {0}
  PROVE  c \div b \in Nat /\ c % b \in 0 .. b - 1 /\ c % b = c - b * (c \div b)
<1>1. c \div b \in Nat
  OBVIOUS
<1>2. c % b \in 0 .. b - 1
  OBVIOUS
<1>3. c % b = c - b * (c \div b)
  OBVIOUS
<1> QED BY <1>1, <1>2, <1>3

\* A time before the end of day l is in a day before l.
LEMMA DivBound ==
  ASSUME NEW c \in Nat, NEW b \in Nat \ {0}, NEW l \in Nat, c < l * b
  PROVE  c \div b < l
<1> DEFINE q == c \div b
           r == c % b
<1>1. q \in Nat /\ r \in 0 .. b - 1 /\ r = c - b * q
  BY DivMod
<1> HIDE DEF q, r
<1>2. ASSUME q >= l PROVE FALSE
  <2>1. PICK j \in Nat : q = l + j
    <3>1. q - l \in Nat /\ q = l + (q - l)
      BY <1>1, <1>2
    <3> QED BY <3>1
  <2>2. b * (l + j) = l * b + j * b /\ j * b \in Nat /\ l * b \in Nat
    OBVIOUS
  <2> QED BY <1>1, <2>1, <2>2
<1>3. q < l
  BY <1>1, <1>2
<1> QED BY <1>3 DEF q
-----------------------------------------------------------------------------
\* The date in calendar is that of day n.
Dated(n) ==
  LET D == DateOfDay(n)
  IN calendar.year = D.year /\ calendar.month = D.month /\ calendar.date = D.date

\* Types that every step keeps: month 13 is possible at any time.
ClockTypes ==
  /\ cnt \in Nat /\ daycnt \in Nat
  /\ flag \in BOOLEAN /\ nvic \in BOOLEAN /\ mixed \in BOOLEAN
  /\ isr \in {"out", "low", "alarm", "alarmLow"}
  /\ shell \in {"out", "high", "low", "year", "month", "time"}
  /\ count \in [isr : Nat, shell : Nat]
  /\ calendar \in [year : Nat, month : 1 .. 13, date : 1 .. 31,
                   time : 0 .. DaySecs - 1, week : 0 .. 6]
  /\ seconds \in 0 .. MaxSeconds

\* The date in calendar is that of daycnt, except while RTC_Set_Uart is between
\* daycnt and the date; then daycnt is the day it works out, and the year is
\* there before the months.  None of this holds once both worked out a date at
\* the same time.
DateInv ==
  ~ mixed =>
    /\ ~ InDate => Dated(daycnt)
    /\ InDate => daycnt = count.shell \div DaySecs
    /\ shell = "month" => calendar.year = DateOfDay(daycnt).year

\* The inductive invariant.
CalendarInv == ClockTypes /\ DateInv

\* Month 13 needs a date worked out twice, or half of one.
LEMMA InvTypes == CalendarInv => CTypeOK
<1> SUFFICES ASSUME CalendarInv PROVE CTypeOK
  OBVIOUS
<1>1. DateOfDay(daycnt).month \in 1 .. 12
  <2>1. daycnt \in Nat
    BY DEF CalendarInv, ClockTypes
  <2> QED BY <2>1, DayDate
<1>2. ~ mixed /\ ~ InDate => calendar.month \in 1 .. 12
  BY <1>1 DEF CalendarInv, DateInv, Dated
<1> QED BY <1>2 DEF CalendarInv, ClockTypes, CTypeOK

\* What RTC_Get leaves in calendar: for a new day its date, else the date that
\* was there.
LEMMA GetTypes ==
  ASSUME NEW c \in Nat, NEW day, NEW cal, NEW new \in RTC_Get(c, day, cal),
         day = c \div DaySecs =>
           cal \in [year : Nat, month : 1 .. 13, date : 1 .. 31,
                    time : 0 .. DaySecs - 1, week : 0 .. 6]
  PROVE  /\ new \in [year : Nat, month : 1 .. 13, date : 1 .. 31,
                     time : 0 .. DaySecs - 1, week : 0 .. 6]
         /\ new.time = c % DaySecs /\ new.week \in Weeks(new.year, new.month, new.date)
         /\ day # c \div DaySecs =>
              LET D == DateOfDay(c \div DaySecs)
              IN new.year = D.year /\ new.month = D.month /\ new.date = D.date
         /\ day = c \div DaySecs =>
              new.year = cal.year /\ new.month = cal.month /\ new.date = cal.date
<1> DEFINE n == c \div DaySecs
           D == DateOfDay(n)
           date == IF day # n THEN D
                   ELSE [year |-> cal.year, month |-> cal.month, date |-> cal.date]
<1>1. n \in Nat /\ c % DaySecs \in 0 .. DaySecs - 1
  BY DivMod, ClockAssumption
<1>2. D \in [year : Nat, month : 1 .. 12, date : 1 .. 31]
  BY <1>1, DayDate
<1>3. date \in [year : Nat, month : 1 .. 13, date : 1 .. 31]
  <2> HIDE DEF D
  <2>1. CASE day # n
    BY <2>1, <1>2
  <2>2. CASE day = n
    BY <2>2
  <2> QED BY <2>1, <2>2
<1>4. PICK w \in Weeks(date.year, date.month, date.date) :
         new = [year |-> date.year, month |-> date.month, date |-> date.date,
                time |-> c % DaySecs, week |-> w]
  BY DEF RTC_Get
<1>5. w \in 0 .. 6
  <2> HIDE DEF date
  <2>1. date.year \in Nat /\ date.month \in 1 .. 13 /\ date.date \in Nat
    BY <1>3
  <2> QED BY <1>4, <2>1, WeekTypes
<1>6. /\ day # n => date.year = D.year /\ date.month = D.month /\ date.date = D.date
      /\ day = n => date.year = cal.year /\ date.month = cal.month /\ date.date = cal.date
  <2> HIDE DEF D
  <2> QED OBVIOUS
<1> HIDE DEF date, D
<1> QED BY <1>1, <1>3, <1>4, <1>5, <1>6 DEF D

\* RTC_Init writes the date of the counter.
LEMMA ClockInit == Init => CalendarInv
<1> SUFFICES ASSUME Init PROVE CalendarInv
  OBVIOUS
<1> DEFINE n == cnt \div DaySecs
<1>1. cnt \in Nat /\ cnt >= DaySecs /\ DaySecs \in Nat \ {0}
  BY ClockAssumption DEF Init
<1>2. n \in Nat /\ n # 0
  <2> DEFINE r == cnt % DaySecs
  <2>1. n \in Nat /\ r \in 0 .. DaySecs - 1 /\ r = cnt - DaySecs * n
    BY <1>1, DivMod
  <2> HIDE DEF n, r
  <2>2. n = 0 => DaySecs * n = 0
    BY <1>1
  <2> QED BY <1>1, <2>1, <2>2
<1>3. calendar \in RTC_Get(cnt, 0, NoDate) /\ daycnt = n
  BY DEF Init
<1>4. /\ calendar \in [year : Nat, month : 1 .. 13, date : 1 .. 31,
                       time : 0 .. DaySecs - 1, week : 0 .. 6]
      /\ Dated(daycnt)
  BY <1>1, <1>2, <1>3, GetTypes DEF Dated
<1>5. daycnt \in Nat
  BY <1>2, <1>3
<1>6. [isr |-> 0, shell |-> 0] \in [isr : Nat, shell : Nat] /\ 0 \in 0 .. MaxSeconds
  BY ClockAssumption
<1>7. ClockTypes
  BY <1>1, <1>4, <1>5, <1>6 DEF Init, ClockTypes
<1>8. DateInv
  BY <1>4 DEF Init, DateInv, InDate
<1> QED BY <1>7, <1>8 DEF CalendarInv

\* The handler's RTC_Get keeps the invariant.
LEMMA UpdateKeeps ==
  ASSUME CalendarInv, NEW c \in Nat, NEW next \in {"out", "alarm"}, Update(c, next),
         flag' \in BOOLEAN
  PROVE  CalendarInv'
<1> DEFINE n == c \div DaySecs
<1>1. n \in Nat
  BY DivMod, ClockAssumption
<1>2. calendar' \in RTC_Get(c, daycnt, calendar) /\ daycnt' = n /\ shell' = shell
      /\ count'.shell = count.shell /\ mixed' = IF n # daycnt THEN InDate ELSE mixed
      /\ InDate' = InDate
  BY DEF Update, CalendarInv, ClockTypes, InDate
<1>3. /\ calendar' \in [year : Nat, month : 1 .. 13, date : 1 .. 31,
                        time : 0 .. DaySecs - 1, week : 0 .. 6]
      /\ daycnt # n => Dated(n)'
      /\ daycnt = n => /\ calendar'.year = calendar.year /\ calendar'.month = calendar.month
                       /\ calendar'.date = calendar.date
  BY <1>2, GetTypes DEF CalendarInv, ClockTypes, Dated
<1>4. ClockTypes'
  <2>1. count' \in [isr : Nat, shell : Nat]
    BY DEF Update, CalendarInv, ClockTypes
  <2>2. mixed' \in BOOLEAN
    <3>1. mixed \in BOOLEAN /\ InDate \in BOOLEAN
      BY DEF CalendarInv, ClockTypes, InDate
    <3>2. CASE daycnt' # daycnt
      BY <3>1, <3>2 DEF Update
    <3>3. CASE daycnt' = daycnt
      BY <3>1, <3>3 DEF Update
    <3> QED BY <3>2, <3>3
  <2>3. daycnt' \in Nat
    BY <1>1, <1>2
  <2>4. UNCHANGED <<cnt, nvic, shell, seconds>> /\ isr' \in {"out", "low", "alarm", "alarmLow"}
    BY DEF Update
  <2> QED BY <1>3, <2>1, <2>2, <2>3, <2>4 DEF CalendarInv, ClockTypes
<1>5. DateInv'
  <2>1. CASE daycnt # n
    BY <2>1, <1>2, <1>3 DEF DateInv, InDate, Dated
  <2>2. CASE daycnt = n
    BY <2>2, <1>2, <1>3 DEF CalendarInv, DateInv, InDate, Dated
  <2> QED BY <2>1, <2>2
<1> QED BY <1>4, <1>5 DEF CalendarInv

\* The two halves of the counter make it up.
LEMMA HalvesNat ==
  ASSUME NEW c \in Nat
  PROVE  High(c) \in Nat /\ Low(c) \in Nat /\ High(c) + Low(c) = c
<1> DEFINE q == c \div HalfMod
           r == c % HalfMod
<1>1. q \in Nat /\ HalfMod \in Nat \ {0} /\ r \in 0 .. HalfMod - 1 /\ r = c - HalfMod * q
  BY DivMod, ClockAssumption
<1>2. High(c) = q * HalfMod /\ Low(c) = r
  BY DEF High, Low
<1> HIDE DEF q, r
<1>3. q * HalfMod = HalfMod * q /\ q * HalfMod \in Nat
  BY <1>1
<1> QED BY <1>1, <1>2, <1>3

\* Every step keeps the invariant.
LEMMA ClockNext == CalendarInv /\ [Next]_vars => CalendarInv'
<1> SUFFICES ASSUME CalendarInv, [Next]_vars PROVE CalendarInv'
  OBVIOUS
<1>1. CASE Second \/ Disable \/ Enable
  <2>1. UNCHANGED <<isr, shell, count, daycnt, calendar, mixed>>
    BY <1>1 DEF Second, Disable, Enable
  <2>2. cnt' \in Nat
    BY <1>1 DEF Second, Disable, Enable, CalendarInv, ClockTypes
  <2>3. flag' \in BOOLEAN /\ nvic' \in BOOLEAN
    <3>1. flag \in BOOLEAN /\ nvic \in BOOLEAN
      BY DEF CalendarInv, ClockTypes
    <3>2. flag' \in {flag, TRUE} /\ nvic' \in {nvic, TRUE, FALSE}
      BY <1>1 DEF Second, Disable, Enable
    <3> QED BY <3>1, <3>2
  <2>4. seconds' \in 0 .. MaxSeconds
    BY <1>1, ClockAssumption DEF Second, Disable, Enable, CalendarInv, ClockTypes
  <2>5. ClockTypes'
    BY <2>1, <2>2, <2>3, <2>4 DEF CalendarInv, ClockTypes
  <2>6. DateInv'
    BY <2>1 DEF CalendarInv, DateInv, InDate, Dated
  <2> QED BY <2>5, <2>6 DEF CalendarInv
<1>2. CASE Irq \/ IrqAlarm
  <2>1. High(cnt) \in Nat
    <3>1. cnt \in Nat /\ count.isr \in Nat /\ count.shell \in Nat
      BY DEF CalendarInv, ClockTypes
    <3>2. High(cnt) \in Nat /\ Low(cnt) \in Nat
      BY <3>1, HalvesNat
    <3> QED BY <3>1, <3>2
  <2>2. count' \in [isr : Nat, shell : Nat] /\ count'.shell = count.shell
    BY <1>2, <2>1 DEF Irq, IrqAlarm, CalendarInv, ClockTypes
  <2>3. UNCHANGED <<cnt, nvic, shell, daycnt, calendar, seconds, mixed>>
    BY <1>2 DEF Irq, IrqAlarm
  <2>4. flag' \in BOOLEAN /\ isr' \in {"out", "low", "alarm", "alarmLow"}
    BY <1>2 DEF Irq, IrqAlarm, CalendarInv, ClockTypes
  <2>5. ClockTypes'
    BY <2>2, <2>3, <2>4 DEF CalendarInv, ClockTypes
  <2>6. DateInv'
    BY <2>2, <2>3 DEF CalendarInv, DateInv, InDate, Dated
  <2> QED BY <2>5, <2>6 DEF CalendarInv
<1>3. CASE IrqGet \/ IrqAlarmGet
  <2>1. count.isr + Low(cnt) \in Nat
    <3>1. cnt \in Nat /\ count.isr \in Nat /\ count.shell \in Nat
      BY DEF CalendarInv, ClockTypes
    <3>2. High(cnt) \in Nat /\ Low(cnt) \in Nat
      BY <3>1, HalvesNat
    <3> QED BY <3>1, <3>2
  <2> QED BY <1>3, <2>1, UpdateKeeps DEF IrqGet, IrqAlarmGet, CalendarInv, ClockTypes
<1>4. ASSUME NEW s \in SetDates, Set(s) PROVE CalendarInv'
  <2>1. IsDate(s[1], s[2], s[3]) /\ s[4] \in Nat /\ DaySecs \in Nat
    BY ClockAssumption
  <2>2. DaysBefore(s[1], s[2], s[3]) \in Nat
    BY <2>1, SetIsDay, DaysNat
  <2>3. DaysBefore(s[1], s[2], s[3]) * DaySecs \in Nat
    BY <2>1, <2>2
  <2>4. cnt' \in Nat
    BY <1>4, <2>1, <2>3 DEF Set
  <2> QED BY <1>4, <2>4 DEF Set, CalendarInv, ClockTypes, DateInv, InDate, Dated
<1>5. CASE ReadHigh
  <2>1. High(cnt) \in Nat
    <3>1. cnt \in Nat /\ count.isr \in Nat /\ count.shell \in Nat
      BY DEF CalendarInv, ClockTypes
    <3>2. High(cnt) \in Nat /\ Low(cnt) \in Nat
      BY <3>1, HalvesNat
    <3> QED BY <3>1, <3>2
  <2> QED BY <1>5, <2>1
          DEF ReadHigh, ShellAt, ShellOnly, CalendarInv, ClockTypes, DateInv, InDate, Dated
<1>6. CASE ReadLow
  <2> DEFINE c == count.shell + Low(cnt)
  <2>1. c \in Nat
    <3>1. cnt \in Nat /\ count.isr \in Nat /\ count.shell \in Nat
      BY DEF CalendarInv, ClockTypes
    <3>2. High(cnt) \in Nat /\ Low(cnt) \in Nat
      BY <3>1, HalvesNat
    <3> QED BY <3>1, <3>2
  <2>2. c \div DaySecs \in Nat
    BY <2>1, DivMod, ClockAssumption
  <2>3. count' = [count EXCEPT !.shell = c] /\ daycnt' = c \div DaySecs
    BY <1>6 DEF ReadLow
  <2> HIDE DEF c
  <2>4. CASE daycnt # c \div DaySecs
    BY <1>6, <2>1, <2>2, <2>3, <2>4
       DEF c, ReadLow, ShellAt, ShellOnly, CalendarInv, ClockTypes, DateInv, InDate, Dated
  <2>5. CASE daycnt = c \div DaySecs
    BY <1>6, <2>1, <2>2, <2>3, <2>5
       DEF c, ReadLow, ShellAt, ShellOnly, CalendarInv, ClockTypes, DateInv, InDate, Dated
  <2> QED BY <2>4, <2>5
<1>7. CASE PutYear
  <2> DEFINE n == count.shell \div DaySecs
  <2>1. n \in Nat
    BY DivMod, ClockAssumption DEF CalendarInv, ClockTypes
  <2>2. DateOfDay(n).year \in Nat /\ YearLoop[<<n, FirstYear>>][1] = DateOfDay(n).year
    <3> HIDE DEF n
    <3>1. DateOfDay(n).year \in Nat
      BY <2>1, DayDate
    <3> QED BY <2>1, <3>1, DayLoops
  <2>3. calendar' = [calendar EXCEPT !.year = DateOfDay(n).year]
    BY <1>7, <2>2 DEF PutYear
  <2>4. InDate /\ InDate' /\ UNCHANGED <<mixed, daycnt, count>>
    BY <1>7 DEF PutYear, ShellAt, InDate
  <2>5. ClockTypes'
    BY <1>7, <2>2, <2>3 DEF PutYear, ShellAt, ShellOnly, CalendarInv, ClockTypes
  <2>6. DateInv'
    BY <2>3, <2>4 DEF CalendarInv, ClockTypes, DateInv
  <2> QED BY <2>5, <2>6 DEF CalendarInv
<1>8. CASE PutMonth
  <2> DEFINE n == count.shell \div DaySecs
             m == MonthLoop(calendar.year, YearLoop[<<n, FirstYear>>][2])
  <2>1. n \in Nat
    BY DivMod, ClockAssumption DEF CalendarInv, ClockTypes
  <2>2. m[1] \in 1 .. 13 /\ m[2] \in 1 .. 31
    <3> DEFINE left == YearLoop[<<n, FirstYear>>][2]
    <3> HIDE DEF n
    <3>1. left \in 0 .. 365
      BY <2>1, DayLoops
    <3>2. calendar.year \in Nat
      BY DEF CalendarInv, ClockTypes
    <3> HIDE DEF left
    <3>3. MonthLoop(calendar.year, left)[1] \in 1 .. 13
      BY <3>1, <3>2, MonthTypes
    <3>4. MonthLoop(calendar.year, left)[2] \in 1 .. 31
      BY <3>1, <3>2, MonthTypes
    <3> QED BY <3>3, <3>4 DEF left
  <2>3. calendar' = [calendar EXCEPT !.month = m[1], !.date = m[2]]
    BY <1>8 DEF PutMonth
  <2>4. /\ shell = "month" /\ InDate /\ shell' = "time" /\ ~ InDate'
        /\ UNCHANGED <<mixed, daycnt, count>>
    BY <1>8 DEF PutMonth, ShellAt, InDate
  <2>5. ClockTypes'
    <3> HIDE DEF m
    <3> QED BY <1>8, <2>2, <2>3 DEF PutMonth, ShellAt, ShellOnly, CalendarInv, ClockTypes
  <2>6. ASSUME ~ mixed PROVE Dated(n)'
    <3>1. calendar.year = DateOfDay(n).year
      BY <2>4, <2>6 DEF CalendarInv, DateInv
    <3>2. m[1] = DateOfDay(n).month /\ m[2] = DateOfDay(n).date
      BY <2>1, <3>1, DayLoops
    <3>3. calendar'.year = calendar.year /\ calendar'.month = m[1] /\ calendar'.date = m[2]
      <4> HIDE DEF m
      <4> QED BY <2>3 DEF CalendarInv, ClockTypes
    <3>4. n' = n
      BY <2>4
    <3> HIDE DEF m, n
    <3> QED BY <3>1, <3>2, <3>3, <3>4 DEF Dated
  <2>7. ~ mixed => daycnt = n
    BY <2>4 DEF CalendarInv, DateInv
  <2>8. DateInv'
    <3>1. n' = n
      BY <2>4
    <3> HIDE DEF n, m
    <3> QED BY <2>4, <2>6, <2>7, <3>1 DEF DateInv, Dated
  <2> QED BY <2>5, <2>8 DEF CalendarInv
<1>9. CASE PutTime
  <2>1. PICK w \in Weeks(calendar.year, calendar.month, calendar.date) :
          calendar' = [calendar EXCEPT !.time = count.shell % DaySecs, !.week = w]
    BY <1>9 DEF PutTime
  <2>2. w \in 0 .. 6
    BY <2>1, WeekTypes DEF CalendarInv, ClockTypes
  <2>3. count.shell % DaySecs \in 0 .. DaySecs - 1
    BY DivMod, ClockAssumption DEF CalendarInv, ClockTypes
  <2>4. count' \in [isr : Nat, shell : Nat] /\ shell' = "out" /\ ~ InDate /\ ~ InDate'
        /\ UNCHANGED <<cnt, flag, nvic, isr, seconds, daycnt, mixed>>
    BY <1>9 DEF PutTime, ShellAt, ShellOnly, CalendarInv, ClockTypes, InDate
  <2>5. /\ calendar' \in [year : Nat, month : 1 .. 13, date : 1 .. 31,
                          time : 0 .. DaySecs - 1, week : 0 .. 6]
        /\ calendar'.year = calendar.year /\ calendar'.month = calendar.month
        /\ calendar'.date = calendar.date
    BY <2>1, <2>2, <2>3 DEF CalendarInv, ClockTypes
  <2>6. ClockTypes'
    BY <2>4, <2>5 DEF CalendarInv, ClockTypes
  <2>7. DateInv'
    BY <2>4, <2>5 DEF CalendarInv, DateInv, Dated
  <2> QED BY <2>6, <2>7 DEF CalendarInv
<1>10. CASE UNCHANGED vars
  BY <1>10 DEF vars, CalendarInv, ClockTypes, DateInv, InDate, Dated
<1> QED BY <1>1, <1>2, <1>3, <1>4, <1>5, <1>6, <1>7, <1>8, <1>9, <1>10 DEF Next

\* Month 13 stays only until the next date is complete, and date, time and day
\* of the week are ever in their ranges, however the handler and RTC_Set_Uart
\* interleave (RTC_Get, rtc.c:218).
THEOREM ClockTypesRight == Spec => []CTypeOK
BY ClockInit, ClockNext, InvTypes, PTL DEF Spec
-----------------------------------------------------------------------------
\* RTC_Set writes the count of every date from 1970 to 2099 (rtc.c:128).
THEOREM SetDateRight == Spec => SetRight
<1>1. [Next]_vars =>
        [\A s \in SetDates :
           Set(s) => cnt' = DayNumber(s[1], s[2], s[3]) * DaySecs + s[4]]_vars
  <2> SUFFICES ASSUME NEW s \in SetDates, Set(s)
               PROVE  cnt' = DayNumber(s[1], s[2], s[3]) * DaySecs + s[4]
    OBVIOUS
  <2>1. DaysBefore(s[1], s[2], s[3]) = DayNumber(s[1], s[2], s[3])
    BY ClockAssumption, SetIsDay
  <2> QED BY <2>1 DEF Set
<1> QED BY <1>1, PTL DEF Spec, SetRight

\* What the handler knows.  Unless a second passes meanwhile, the half it read
\* is that of the counter, and the calendar is right when it is done; it reads
\* the counter again only after a second has passed.  The counter stays below
\* 2100 for as long as MaxSeconds lets it run.
HandlerInv ==
  /\ cnt + (MaxSeconds - seconds) < DayLimit * DaySecs
  /\ isr = "low" /\ ~ flag => count.isr = High(cnt)
  /\ isr = "alarmLow" => flag
  /\ isr = "alarm" /\ ~ flag => InDate \/ mixed \/ Right

\* The day of the counter is before 2100.
LEMMA DayInRange ==
  ASSUME CalendarInv, HandlerInv
  PROVE  cnt \div DaySecs \in Nat /\ cnt \div DaySecs < DayLimit
<1>1. DayLimit \in Nat
  BY DEF DayLimit, DayNumber, LeapsTo, StartOf, MonthStart, LastYear, Leap
<1>2. cnt < DayLimit * DaySecs
  <2>1. DayLimit * DaySecs \in Nat
    BY <1>1, ClockAssumption
  <2> HIDE DEF DayLimit
  <2> DEFINE l == DayLimit * DaySecs
  <2>2. cnt \in Nat /\ seconds \in 0 .. MaxSeconds /\ MaxSeconds \in Nat /\ l \in Nat
        /\ cnt + (MaxSeconds - seconds) < l
    BY <2>1, ClockAssumption DEF CalendarInv, ClockTypes, HandlerInv
  <2> HIDE DEF l
  <2>3. cnt < l
    BY <2>2
  <2> QED BY <2>3 DEF l
<1> QED BY <1>1, <1>2, DivMod, DivBound, ClockAssumption DEF CalendarInv, ClockTypes

\* Power-on, and
LEMMA HandlerInit ==
  ASSUME Before2100, Init
  PROVE  HandlerInv
<1>1. cnt + (MaxSeconds - seconds) < DayLimit * DaySecs
  <2>1. /\ cnt \in Nat /\ MaxSeconds \in Nat /\ seconds = 0
        /\ cnt + MaxSeconds < DayLimit * DaySecs
    BY ClockAssumption DEF Init, Before2100
  <2>2. MaxSeconds - seconds = MaxSeconds
    BY <2>1
  <2> QED BY <2>1, <2>2
<1> QED BY <1>1 DEF Init, HandlerInv

\* A handler that read both halves with no second between them leaves the right
\* date and time.
LEMMA GetRight ==
  ASSUME CalendarInv, HandlerInv, isr = "low", ~ flag, Update(count.isr + Low(cnt), "alarm")
  PROVE  InDate \/ mixed' \/ Right'
<1> DEFINE n == cnt \div DaySecs
           D == DateOfDay(n)
<1>1. count.isr + Low(cnt) = cnt /\ cnt' = cnt
  BY HalvesNat DEF HandlerInv, CalendarInv, ClockTypes, Update
<1>2. n \in Nat /\ n < DayLimit
  BY DayInRange
<1>3. /\ calendar' \in RTC_Get(cnt, daycnt, calendar)
      /\ mixed' = IF n # daycnt THEN InDate ELSE mixed
  BY <1>1 DEF Update
<1>4. /\ calendar'.time = cnt % DaySecs
      /\ calendar'.week \in Weeks(calendar'.year, calendar'.month, calendar'.date)
      /\ daycnt # n => /\ calendar'.year = D.year /\ calendar'.month = D.month
                       /\ calendar'.date = D.date
      /\ daycnt = n => /\ calendar'.year = calendar.year /\ calendar'.month = calendar.month
                       /\ calendar'.date = calendar.date
  BY <1>3, GetTypes DEF CalendarInv, ClockTypes
<1>5. SUFFICES ASSUME ~ InDate, ~ mixed' PROVE Right'
  OBVIOUS
<1>6. calendar'.year = D.year /\ calendar'.month = D.month /\ calendar'.date = D.date
  <2>1. CASE daycnt # n
    BY <2>1, <1>4
  <2>2. CASE daycnt = n
    <3>1. Dated(n)
      BY <2>2, <1>3, <1>5 DEF CalendarInv, DateInv
    <3> QED BY <2>2, <3>1, <1>4 DEF Dated
  <2> QED BY <2>1, <2>2
<1>7. /\ D.month \in 1 .. 12
      /\ IsDayOf(n, D.year, D.month, D.date, RTC_Get_Week(D.year, D.month, D.date))
  BY <1>2, DayDate, DayIs
<1>8. calendar'.week = RTC_Get_Week(D.year, D.month, D.date)
  BY <1>4, <1>6, <1>7 DEF Weeks
<1> HIDE DEF D
<1>9. n' = n /\ (cnt % DaySecs)' = cnt % DaySecs
  BY <1>1
<1> QED BY <1>4, <1>6, <1>7, <1>8, <1>9 DEF Right

\* every step keep what the handler knows.
LEMMA HandlerNext ==
  ASSUME Before2100, CalendarInv, HandlerInv, [Next]_vars
  PROVE  HandlerInv'
<1>1. CASE Second
  <2>1. cnt' + (MaxSeconds - seconds') = cnt + (MaxSeconds - seconds)
    BY <1>1, ClockAssumption DEF Second, CalendarInv, ClockTypes
  <2>2. flag' /\ isr' = isr
    BY <1>1 DEF Second
  <2> QED BY <2>1, <2>2 DEF HandlerInv
<1>2. CASE Disable \/ Enable
  BY <1>2 DEF Disable, Enable, HandlerInv
<1>3. CASE Irq
  BY <1>3 DEF Irq, HandlerInv, CalendarInv, ClockTypes
<1>4. CASE IrqGet
  <2>1. cnt' = cnt /\ seconds' = seconds /\ flag' = flag /\ isr' = "alarm" /\ InDate' = InDate
    BY <1>4 DEF IrqGet, Update, InDate
  <2>2. ~ flag => InDate \/ mixed' \/ Right'
    BY <1>4, GetRight DEF IrqGet
  <2> QED BY <2>1, <2>2 DEF HandlerInv
<1>5. CASE IrqAlarm
  BY <1>5 DEF IrqAlarm, HandlerInv
<1>6. CASE IrqAlarmGet
  BY <1>6 DEF IrqAlarmGet, Update, HandlerInv
<1>7. ASSUME NEW s \in SetDates, Set(s) PROVE HandlerInv'
  <2>1. DaysBefore(s[1], s[2], s[3]) = DayNumber(s[1], s[2], s[3])
    BY ClockAssumption, SetIsDay
  <2> DEFINE e == DayNumber(s[1], s[2], s[3]) * DaySecs + s[4]
             l == DayLimit * DaySecs
  <2>2. cnt' = e /\ e + MaxSeconds < l /\ seconds' = seconds
    BY <1>7, <2>1 DEF Set, Before2100
  <2>3. e \in Nat /\ l \in Nat
    <3>1. DayNumber(s[1], s[2], s[3]) \in Nat /\ DaySecs \in Nat /\ s[4] \in Nat
      BY ClockAssumption, DaysNat
    <3>2. DayNumber(s[1], s[2], s[3]) * DaySecs \in Nat
      BY <3>1
    <3>3. DayLimit \in Nat
      BY DEF DayLimit, DayNumber, LeapsTo, StartOf, MonthStart, LastYear, Leap
    <3> HIDE DEF DayLimit
    <3> QED BY <3>1, <3>2, <3>3
  <2>4. seconds \in 0 .. MaxSeconds /\ MaxSeconds \in Nat
    BY ClockAssumption DEF CalendarInv, ClockTypes
  <2> HIDE DEF e, l
  <2>5. cnt' + (MaxSeconds - seconds') < l
    BY <2>2, <2>3, <2>4
  <2>6. isr' = "out"
    BY <1>7 DEF Set
  <2> QED BY <2>5, <2>6 DEF HandlerInv, l
<1>8. CASE ReadHigh \/ ReadLow \/ PutYear \/ PutMonth \/ PutTime
  BY <1>8 DEF ReadHigh, ReadLow, PutYear, PutMonth, PutTime, ShellAt, ShellOnly, HandlerInv
<1>9. CASE UNCHANGED vars
  BY <1>9 DEF vars, HandlerInv, Right, InDate
<1> QED BY <1>1, <1>2, <1>3, <1>4, <1>5, <1>6, <1>7, <1>8, <1>9 DEF Next

\* While the counter stays before 2100, the calendar holds date, weekday and
\* time of the counter whenever the handler returns with no second missed, or
\* else RTC_Set_Uart worked out a date meanwhile (RTC_IRQHandler, rtc.c:80).
THEOREM CalendarStaysRight ==
  ASSUME Before2100
  PROVE  Spec => CalendarRight
<1>1. ASSUME HandlerInv, [Next]_vars, isr # "out", isr' = "out"
      PROVE  flag' \/ InDate \/ mixed' \/ Right'
  <2>1. CASE IrqAlarm
    <3>1. isr = "alarm" /\ ~ flag /\ UNCHANGED <<cnt, calendar, mixed>>
      BY <1>1, <2>1 DEF IrqAlarm
    <3> QED BY <1>1, <3>1 DEF HandlerInv, Right
  <2>2. CASE IrqAlarmGet
    BY <1>1, <2>2 DEF IrqAlarmGet, HandlerInv
  <2>3. IrqAlarm \/ IrqAlarmGet
    BY <1>1 DEF Next, vars, Second, Disable, Enable, Irq, IrqGet, Update, Set,
                ReadHigh, ReadLow, PutYear, PutMonth, PutTime, ShellAt
  <2> QED BY <2>1, <2>2, <2>3
<1>2. Init => CalendarInv /\ HandlerInv
  BY ClockInit, HandlerInit
<1>3. CalendarInv /\ HandlerInv /\ [Next]_vars => CalendarInv' /\ HandlerInv'
  BY ClockNext, HandlerNext
<1> QED BY <1>1, <1>2, <1>3, PTL DEF Spec, CalendarRight
=============================================================================
