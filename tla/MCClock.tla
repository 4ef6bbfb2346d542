------------------------------ MODULE MCClock ------------------------------
EXTENDS Clock

\* The last second of February and of December of every year.
MCBootCounts ==
  {DayNumber(y, 3, 1) * DaySecs - 1 : y \in FirstYear .. LastYear}
  \cup {DayNumber(y, 1, 1) * DaySecs - 1 : y \in FirstYear + 1 .. LastYear}

MCSetDates ==
  {<<1970, 1, 1, 0>>, <<1999, 2, 28, 3>>, <<2000, 3, 1, 0>>, <<2019, 9, 8, 1>>,
   <<2024, 12, 31, 3>>, <<2099, 12, 30, 3>>}

ASSUME MCLegalYears == Before2100
=============================================================================
