CONSTANTS
  Contexts = {a, b}
  Loadable = {a, b}
  Switches = {r1, r2}
  Startup = startup
  InitialContext = a
  MaxInFlight = 1
  Nil = Nil
SPECIFICATION FairSpec
INVARIANTS
  StopChOpen
  ManagersFollowActive
  
  DataMeansSynced

  
\* Every switch is made at most once, so the model ends when all have run.
CHECK_DEADLOCK FALSE
