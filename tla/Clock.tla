------------------------------- MODULE Clock -------------------------------
(***************************************************************************)
(* The clock (bsp/rtc.c).  A counter of seconds, which the program reads   *)
(* in two halves, requests an interrupt every second; the handler works    *)
(* out date and time with RTC_Get and shows them.  Dialogs of the touch    *)
(* thread disable the interrupt, so that a handler that was put off may    *)
(* run at any moment of a second.  The shell's RTC_Set_Uart sets the       *)
(* counter and calls RTC_Get as well, in a thread: the handler may come in *)
(* between any two steps of it.                                            *)
(***************************************************************************)
EXTENDS Calendar, Sequences

CONSTANTS
  DaySecs,     \* 86400
  HalfMod,     \* 2^16
  BootCounts,  \* counter values at power-on
  SetDates,    \* dates that the shell sets: <<year, month, date, second of the day>>
  MaxSeconds,  \* bound: seconds that pass
  MaxSets      \* bound: RTC_Set_Uart commands

ASSUME ClockAssumption ==
  /\ DaySecs \in Nat \ {0} /\ HalfMod \in Nat \ {0}
  /\ \A c \in BootCounts : c \in Nat /\ c >= DaySecs   \* not on 1970-01-01
  /\ \A s \in SetDates : IsDate(s[1], s[2], s[3]) /\ s[4] \in 0 .. DaySecs - 1
  /\ MaxSeconds \in Nat /\ MaxSets \in Nat

(***************************************************************************)
(* The counter does not run past the legal years.                          *)
(***************************************************************************)
Before2100 ==
  /\ \A c \in BootCounts : c + MaxSeconds < DayLimit * DaySecs
  /\ \A s \in SetDates :
       DayNumber(s[1], s[2], s[3]) * DaySecs + s[4] + MaxSeconds < DayLimit * DaySecs

VARIABLES
  cnt,        \* RTC->CNTH, RTC->CNTL
  flag,       \* RTC_FLAG_SEC
  nvic,       \* the interrupt is enabled
  isr,        \* where the handler is
  shell,      \* where RTC_Set_Uart is
  count,      \* timecount of the handler and of the shell's RTC_Get
  daycnt,     \* static of RTC_Get: the day whose date is in calendar
  calendar,
  seconds, sets,
  mixed       \* history: the date was worked out by both at the same time

vars == <<cnt, flag, nvic, isr, shell, count, daycnt, calendar, seconds, sets, mixed>>

High(c) == (c \div HalfMod) * HalfMod
Low(c) == c % HalfMod

(***************************************************************************)
(* RTC_Get in one go, as RTC_Init and the handler call it: the date is     *)
(* worked out only when the day is not that of the last call.              *)
(***************************************************************************)
DateOfDayNext(n) ==                 \* slip: the 1 for the date is added twice
  LET y == YearLoop[<<n, FirstYear>>]
      m == MonthLoop(y[1], y[2])
  IN [year |-> y[1], month |-> m[1], date |-> m[2] + 1]
DateOfDay(n) ==
  LET y == YearLoop[<<n, FirstYear>>]
      m == MonthLoop(y[1], y[2])
  IN [year |-> y[1], month |-> m[1], date |-> m[2]]

RTC_Get(c, day, cal) ==
  LET n == c \div DaySecs
      date == IF day # n THEN DateOfDay(n)
              ELSE [year |-> cal.year, month |-> cal.month, date |-> cal.date]
  IN {[year |-> date.year, month |-> date.month, date |-> date.date,
       time |-> c % DaySecs, week |-> w] :
       w \in Weeks(date.year, date.month, date.date)}

NoDate == [year |-> 0, month |-> 0, date |-> 0, time |-> 0, week |-> 0]

Init ==
  /\ cnt \in BootCounts
  /\ flag = FALSE /\ nvic = TRUE
  /\ isr = "out" /\ shell = "out"
  /\ count = [isr |-> 0, shell |-> 0]
  /\ daycnt = cnt \div DaySecs
  /\ calendar \in RTC_Get(cnt, 0, NoDate)
  /\ seconds = 0 /\ sets = 0
  /\ mixed = FALSE
-----------------------------------------------------------------------------
(***************************************************************************)
(* The hardware.                                                           *)
(***************************************************************************)
Second ==
  /\ seconds < MaxSeconds /\ seconds' = seconds + 1
  /\ cnt' = cnt + 1 /\ flag' = TRUE
  /\ UNCHANGED <<nvic, isr, shell, count, daycnt, calendar, sets, mixed>>

(***************************************************************************)
(* HAL_NVIC_DisableIRQ and HAL_NVIC_EnableIRQ in the touch thread.         *)
(***************************************************************************)
Disable ==
  /\ isr = "out" /\ nvic /\ nvic' = FALSE
  /\ UNCHANGED <<cnt, flag, isr, shell, count, daycnt, calendar, seconds, sets, mixed>>

Enable ==
  /\ isr = "out" /\ ~ nvic /\ nvic' = TRUE
  /\ UNCHANGED <<cnt, flag, isr, shell, count, daycnt, calendar, seconds, sets, mixed>>
-----------------------------------------------------------------------------
(***************************************************************************)
(* RTC_IRQHandler clears the flag and reads the time, one half after the   *)
(* other.  What should be the test for the alarm asks for the second once  *)
(* more, and does not clear its flag.                                      *)
(***************************************************************************)
Irq ==
  /\ isr = "out" /\ nvic /\ flag
  /\ flag' = FALSE
  /\ isr' = "low"
  /\ count' = [count EXCEPT !.isr = High(cnt)]
  /\ UNCHANGED <<cnt, nvic, shell, daycnt, calendar, seconds, sets, mixed>>

InDate == shell \in {"year", "month"}

Update(c, next) ==
  /\ isr' = next
  /\ count' = [count EXCEPT !.isr = 0]
  /\ calendar' \in RTC_Get(c, daycnt, calendar)
  /\ daycnt' = c \div DaySecs
  /\ mixed' = IF daycnt' # daycnt THEN InDate ELSE mixed
  /\ UNCHANGED <<cnt, nvic, shell, seconds, sets>>

IrqGetClear ==                      \* slip: the flag is cleared after reading
  isr = "low" /\ Update(count.isr + Low(cnt), "alarm") /\ flag' = FALSE
IrqGet ==
  isr = "low" /\ Update(count.isr + Low(cnt), "alarm") /\ UNCHANGED flag

IrqAlarm ==
  /\ isr = "alarm"
  /\ isr' = IF flag THEN "alarmLow" ELSE "out"
  /\ count' = [count EXCEPT !.isr = IF flag THEN High(cnt) ELSE 0]
  /\ UNCHANGED <<cnt, flag, nvic, shell, daycnt, calendar, seconds, sets, mixed>>

IrqAlarmGet ==
  isr = "alarmLow" /\ Update(count.isr + Low(cnt), "out") /\ UNCHANGED flag
-----------------------------------------------------------------------------
(***************************************************************************)
(* RTC_Set_Uart in the shell: RTC_Set writes the counter, RTC_Get follows  *)
(* in steps, since calendar and daycnt are shared with the handler.        *)
(***************************************************************************)
Set(s) ==
  /\ isr = "out" /\ shell = "out" /\ sets < MaxSets
  /\ sets' = sets + 1
  /\ cnt' = DaysBefore(s[1], s[2], s[3]) * DaySecs + s[4]
  /\ shell' = "high"
  /\ UNCHANGED <<flag, nvic, isr, count, daycnt, calendar, seconds, mixed>>

ShellAt(pc, next) == isr = "out" /\ shell = pc /\ shell' = next
ShellOnly == UNCHANGED <<cnt, flag, nvic, isr, seconds, sets>>

ReadHigh ==
  /\ ShellAt("high", "low")
  /\ count' = [count EXCEPT !.shell = High(cnt)]
  /\ ShellOnly /\ UNCHANGED <<daycnt, calendar, mixed>>

(***************************************************************************)
(* daycnt is set before the date is there.                                 *)
(***************************************************************************)
ReadLow ==
  LET c == count.shell + Low(cnt) IN
  /\ IF daycnt # c \div DaySecs
     THEN ShellAt("low", "year") /\ mixed' = FALSE
     ELSE ShellAt("low", "time") /\ UNCHANGED mixed
  /\ count' = [count EXCEPT !.shell = c]
  /\ daycnt' = c \div DaySecs
  /\ ShellOnly /\ UNCHANGED calendar

PutYear ==
  /\ ShellAt("year", "month")
  /\ calendar' = [calendar EXCEPT !.year = YearLoop[<<count.shell \div DaySecs, FirstYear>>][1]]
  /\ ShellOnly /\ UNCHANGED <<count, daycnt, mixed>>

(***************************************************************************)
(* The months are those of the year in calendar, whoever put it there.     *)
(***************************************************************************)
PutMonth ==
  LET m == MonthLoop(calendar.year, YearLoop[<<count.shell \div DaySecs, FirstYear>>][2]) IN
  /\ ShellAt("month", "time")
  /\ calendar' = [calendar EXCEPT !.month = m[1], !.date = m[2]]
  /\ ShellOnly /\ UNCHANGED <<count, daycnt, mixed>>

PutTime ==
  /\ ShellAt("time", "out")
  /\ \E w \in Weeks(calendar.year, calendar.month, calendar.date) :
       calendar' = [calendar EXCEPT !.time = count.shell % DaySecs, !.week = w]
  /\ count' = [count EXCEPT !.shell = 0]
  /\ ShellOnly /\ UNCHANGED <<daycnt, mixed>>

Next ==
  \/ Second \/ Disable \/ Enable
  \/ Irq \/ IrqGet \/ IrqAlarm \/ IrqAlarmGet
  \/ \E s \in SetDates : Set(s)
  \/ ReadHigh \/ ReadLow \/ PutYear \/ PutMonth \/ PutTime

Spec == Init /\ [][Next]_vars
-----------------------------------------------------------------------------
(***************************************************************************)
(* Type correctness.  Month 13 comes only of a date that the handler and   *)
(* the shell worked out at the same time, and stays until the next date is *)
(* complete (RTC_Get, rtc.c:218).                                          *)
(***************************************************************************)
CTypeOK ==
  /\ cnt \in Nat /\ daycnt \in Nat
  /\ flag \in BOOLEAN /\ nvic \in BOOLEAN /\ mixed \in BOOLEAN
  /\ isr \in {"out", "low", "alarm", "alarmLow"}
  /\ shell \in {"out", "high", "low", "year", "month", "time"}
  /\ count \in [isr : Nat, shell : Nat]
  /\ calendar.month \in 1 .. (IF mixed \/ InDate THEN 13 ELSE 12) /\ calendar.date \in 1 .. 31
  /\ calendar.time \in 0 .. DaySecs - 1 /\ calendar.week \in 0 .. 6

(***************************************************************************)
(* Reading the counter in two halves does no harm: whenever the handler    *)
(* returns, with no further interrupt requested, the calendar holds date,  *)
(* day of the week and time of the counter, also across the carry between  *)
(* the halves, midnight, the ends of months and of leap years.  Only a     *)
(* date that RTC_Set_Uart works out at the same time may be wrong          *)
(* (RTC_IRQHandler, RTC_Get, rtc.c:80, 218).                               *)
(***************************************************************************)
Right ==
  /\ IsDayOf(cnt \div DaySecs, calendar.year, calendar.month, calendar.date, calendar.week)
  /\ calendar.time = cnt % DaySecs

CalendarRight ==
  [][isr # "out" /\ isr' = "out" => flag' \/ InDate \/ mixed' \/ Right']_vars

(***************************************************************************)
(* RTC_Set, with its loops over years and months, writes the count of the  *)
(* date it was asked for (rtc.c:128).                                      *)
(***************************************************************************)
SetRight ==
  [][\A s \in SetDates :
       Set(s) => cnt' = DayNumber(s[1], s[2], s[3]) * DaySecs + s[4]]_vars
=============================================================================
