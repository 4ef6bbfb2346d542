CONSTANT MaxOwed = 4
SPECIFICATION DFairSpec
INVARIANT ReaderExclusive
PROPERTY Served
PROPERTY DoorCloses
PROPERTY DoorOpens
