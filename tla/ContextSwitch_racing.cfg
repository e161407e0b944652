CONSTANTS
  Contexts = {a, b}
  Loadable = {a, b}
  Switches = {r1, r2}
  Startup = startup
  InitialContext = a
  MaxInFlight = 2
  Nil = Nil
SPECIFICATION Spec
INVARIANTS
  ManagersFollowActive
\* Every switch is made at most once, so the model ends when all have run.
CHECK_DEADLOCK FALSE
