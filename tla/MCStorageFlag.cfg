\* As many tags as slots: the last slot ends on the password flag.
CONSTANTS
  MaxTags = 2
  CntMod = 4
  Cards <- TwoCards
  Passwords <- OnePassword
  PswSet = 10
  MaxCrashes = 1
SPECIFICATION SSpec
INVARIANT SetupOnlyOnce
CHECK_DEADLOCK FALSE
