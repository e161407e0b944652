CONSTANTS
  Contexts = {a, b, c}
  MaxCalls = 2
  Viewers = {}
  Nil = Nil
SPECIFICATION Spec
PROPERTIES
  StaleCallDiscarded
\* Calls are bounded, so the model ends when all have returned.
CHECK_DEADLOCK FALSE
