CONSTANTS
  Clusters = {a, b}
  Callers = {k1, k2, k3}
  MaxResets = 2
  Nothing = Nothing
SPECIFICATION FairHubbleSpec
INVARIANTS
  TunnelsAccounted
  SingleTunnel
  ConnectionIsCurrent
  AbsenceIsCurrent
PROPERTIES
  NoCrossClusterFlows
  EveryCallReturns
\* Every call is made at most once, so the model ends when all have returned.
CHECK_DEADLOCK FALSE
