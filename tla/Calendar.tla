------------------------------ MODULE Calendar ------------------------------
(***************************************************************************)
(* The calendar of bsp/rtc.c: dates from and to days since 1970-01-01, and *)
(* the day of the week, as the code computes them; and a reference to      *)
(* compare them with.                                                      *)
(***************************************************************************)
EXTENDS Integers

FirstYear == 1970
LastYear == 2099      \* "1970 to 2099 are the legal years"

Is_Leap_Year(y) == y % 4 = 0 /\ (y % 100 = 0 => y % 400 = 0)

table_week == <<0, 3, 3, 6, 1, 4, 6, 2, 5, 0, 3, 5>>
mon_table == <<31, 28, 31, 30, 31, 30, 31, 31, 30, 31, 30, 31>>

YearLen(y) == IF Is_Leap_Year(y) THEN 366 ELSE 365
MonthLen(y, m) == mon_table[m] + IF Is_Leap_Year(y) /\ m = 2 THEN 1 ELSE 0

(***************************************************************************)
(* RTC_Set: the days of the years and of the months before, and the date.  *)
(***************************************************************************)
YearsBefore[y \in Nat] ==
  IF y <= FirstYear THEN 0 ELSE YearsBefore[y - 1] + YearLen(y - 1)

MonthsBefore(y, m) ==
  LET days[i \in 1 .. 13] == IF i = 1 THEN 0 ELSE days[i - 1] + MonthLen(y, i - 1)
  IN days[m]

DaysBeforeMonth(y, m, d) ==            \* slip: smon is not made 0-based
  YearsBefore[y] + MonthsBefore(y, m + 1) + d - 1
DaysBefore(y, m, d) ==
  YearsBefore[y] + MonthsBefore(y, m) + d - 1

(***************************************************************************)
(* RTC_Get: whole years are taken off the days, then whole months.  With   *)
(* the days of one year and the length of another, month 13 is possible,   *)
(* but no more than a day is left for it.                                  *)
(***************************************************************************)
YearLoop[s \in Nat \X Nat] ==
  LET n == s[1]  y == s[2]
  IN IF n < YearLen(y) THEN <<y, n>> ELSE YearLoop[<<n - YearLen(y), y + 1>>]

MonthLoop(y, left) ==
  LET loop[s \in Nat \X (1 .. 13)] ==
        LET n == s[1]  m == s[2]
        IN IF n < 28 \/ m = 13 \/ n < MonthLen(y, m)
           THEN <<m, n + 1>> ELSE loop[<<n - MonthLen(y, m), m + 1>>]
  IN loop[<<left, 1>>]

(***************************************************************************)
(* RTC_Get_Week, 0 for Sunday: years and leap years since 1900.  For month *)
(* 13 it reads past table_week: any day may come out.                      *)
(***************************************************************************)
RTC_Get_Week(y, m, d) ==
  LET yearL == (y % 100) + IF y \div 100 > 19 THEN 100 ELSE 0
      leapYet == IF yearL % 4 = 0 /\ m < 3 THEN 1 ELSE 0
  IN (((yearL + yearL \div 4) % 7) + d + table_week[m] - leapYet) % 7

Weeks(y, m, d) == IF m \in 1 .. 12 THEN {RTC_Get_Week(y, m, d)} ELSE 0 .. 6
-----------------------------------------------------------------------------
(***************************************************************************)
(* The Gregorian calendar: how many days lie between 1970-01-01 and a      *)
(* date, which dates there are, and that 1970-01-01 was a Thursday.        *)
(***************************************************************************)
Leap(y) == y % 400 = 0 \/ (y % 4 = 0 /\ y % 100 # 0)
LeapsTo(y) == y \div 4 - y \div 100 + y \div 400
MonthStart == <<0, 31, 59, 90, 120, 151, 181, 212, 243, 273, 304, 334, 365>>
StartOf(y, m) == MonthStart[m] + IF Leap(y) /\ m > 2 THEN 1 ELSE 0

DayNumber(y, m, d) ==
  365 * (y - 1970) + LeapsTo(y - 1) - LeapsTo(1969) + StartOf(y, m) + d - 1

IsDate(y, m, d) ==
  /\ y \in FirstYear .. LastYear /\ m \in 1 .. 12
  /\ d \in 1 .. StartOf(y, m + 1) - StartOf(y, m)

IsDayOf(n, y, m, d, w) ==
  IsDate(y, m, d) /\ DayNumber(y, m, d) = n /\ w = (n + 4) % 7

DayLimit == DayNumber(LastYear + 1, 1, 1)
=============================================================================
