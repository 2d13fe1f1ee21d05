SPECIFICATION FairPipeSpec
CONSTANTS
  Letters = {a, b}
  MaxLength = 3
  Messages <- ShortMessages
  Size = 2
  MaxSent = 2
INVARIANT ShownAsSent
PROPERTY Drained
