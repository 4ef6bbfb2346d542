CONSTANTS
  Digits <- TwoDigits
  Size = 3
  Blank = Blank
  Nul = Nul
  Erased = Erased
SPECIFICATION ESpec
INVARIANT ETypeOK
PROPERTY ImplementsTextEntry
