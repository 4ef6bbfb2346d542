SPECIFICATION FairSpec
CONSTANTS
  Cards = {c1, c2, c3}
  Match = match
  Touch = touch
  NoUser = NoUser
  None = None
  Mixed = Mixed
  MaxNoise = 2
INVARIANT UsedIsRead
INVARIANT ReadIsPresent
PROPERTY CalmIsRead
PROPERTY CardServed
