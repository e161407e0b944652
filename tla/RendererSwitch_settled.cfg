CONSTANTS
  Contexts = {a, b}
  MaxCalls = 2
  Viewers = {v}
  Nil = Nil
SPECIFICATION FairSpec
INVARIANTS
  CallsSettle
  SplitExplained
  MislabelExplained
PROPERTIES
  EveryCallReturns
\* Calls are bounded, so the model ends when all have returned.
CHECK_DEADLOCK FALSE
