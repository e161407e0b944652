CONSTANTS
  MaxRecords = 2
  MaxRestarts = 2
  Faults = {}
  CutLines = {"partial"}
  ArchivesExpire = FALSE
SPECIFICATION AuditSpec
INVARIANTS
  ChainContinuous
\* The bounds on events and starts end the run.
CHECK_DEADLOCK FALSE
