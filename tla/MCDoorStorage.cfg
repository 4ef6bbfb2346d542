CONSTANTS
  MaxTags = 5
  CntMod = 7
  Cards <- TwoCards
  Passwords <- TwoPasswords
  PswSet = 10
  MaxCrashes = 2
SPECIFICATION SSpec
INVARIANT STypeOK
INVARIANT SetupOnlyOnce
INVARIANT PasswordKept
INVARIANT OthersSurvive
\* A cancelled set-up leaves no password that matches: only the power can change that.
CHECK_DEADLOCK FALSE
