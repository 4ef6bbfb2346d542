CONSTANTS
  MaxTags = 3
  CntMod = 5
  Cards <- TwoTags
  PswSet = 10
  PswByte = 3
SPECIFICATION ShSpec
INVARIANT ShTypeOK
INVARIANT UndisturbedKeepsPassword
INVARIANT DeletedTagsStayDeleted
