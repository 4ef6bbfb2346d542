\* One power failure in a delete leaves a tag in two slots; the next delete of it.
CONSTANTS
  MaxTags = 5
  CntMod = 7
  Cards <- ThreeCards
  Passwords <- OnePassword
  PswSet = 10
  MaxCrashes = 1
SPECIFICATION SSpec
INVARIANT DeleteKeepsOthers
CHECK_DEADLOCK FALSE
