SPECIFICATION FairSpec
CONSTANTS
  Letters = {"q", "c"}
  MaxText = 6
  Texts <- AllTexts
  Table <- SmallTable
  LineSize = 6
  MaxArgs = 2
INVARIANTS UsedOnce ExecutedAsRead
PROPERTY TextIsExecuted
CHECK_DEADLOCK FALSE
