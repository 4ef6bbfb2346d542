SPECIFICATION FairSpec
CONSTANTS
  Ops = {register, delete}
  W = 16
  Period = 2
  MaxLate = 2
  NoOp = NoOp
INVARIANT TypeOK
INVARIANT ListRight
INVARIANT NoLostWakeup
PROPERTY EarlyOnlyInWindow
PROPERTY UnlockedInTheEnd
PROPERTY ImplementsTimerService
