SPECIFICATION Spec
CONSTANTS
  Half = 4
  Word = 16
  LongMax = 100
  Letters = {a}
  NameSize = 2
  Contexts <- TwoContexts
  Exceptions <- SomeExceptions
  Strings <- ShortStrings
  Names <- ShortNames
  ExitCodes <- TwoCodes
  Texts <- SomeTexts
INVARIANTS TypeOK HaltedOnShown ShownAsRead BuffersFreed RegistersCurrent AddressAsTyped
PROPERTY DamagedByEmptyOnly
CHECK_DEADLOCK FALSE
