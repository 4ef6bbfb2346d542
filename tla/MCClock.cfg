CONSTANTS
  DaySecs = 4
  HalfMod = 3
  BootCounts <- MCBootCounts
  SetDates <- MCSetDates
  MaxSeconds = 3
  MaxSets = 2
SPECIFICATION Spec
INVARIANT CTypeOK
PROPERTY CalendarRight
PROPERTY SetRight
