\* One tag fewer than there are slots: the store never fills up.
CONSTANTS
  MaxTags = 4
  CntMod = 6
  Cards <- ThreeCards
SPECIFICATION Spec
INVARIANT TypeOK
INVARIANT LiveSlotsDistinct
PROPERTY PasswordUntouched
PROPERTY ImplementsRegistry
