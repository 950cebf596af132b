SPECIFICATION FairSpec
CONSTANTS
  MaxItems = 6
  PromptHandlers = TRUE
INVARIANTS
  TypeOK
  OneChain
  NeverAbandoned
  ForwardedInOrder
PROPERTIES
  SilentStreamIsLeft
CHECK_DEADLOCK FALSE
