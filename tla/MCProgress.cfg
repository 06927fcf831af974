SPECIFICATION ProgressSpec
CONSTANTS
  NewAgent = 2
  None = None
CONSTRAINT ConversationsInOrder
PROPERTIES EventuallyActive EveryDueActionServed
CHECK_DEADLOCK FALSE
