CONSTANTS
  Ops <- RegisterDelete
  TimerPrio <- DeleteOnly
  LockTicks = 8
  MaxErr = 1
  DrawTicks = 3
  NoOp = NoOp
SPECIFICATION LFairSpec
INVARIANT LTypeOK
INVARIANT CountdownNotEarly
PROPERTY LockHeld
PROPERTY Unlocked
