SPECIFICATION FairSpec
INVARIANT ScTypeOK
INVARIANT TitleRed
INVARIANT DialogIntact
INVARIANT InkBlack
PROPERTY ClockReturns
