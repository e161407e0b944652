CONSTANTS
  Ids = {i1, i2}
  Calls = {f1, f2}
  Switchers = {s}
  Contexts = {a, b}
  UniqueIds = TRUE
  Nil = Nil
  Forwards = {r1}
  MaxStopAlls = 1
  ToolCalls = {m1, m2, m3}
  Longest <- const_longest
  m1 = m1
  m2 = m2
  m3 = m3
  McpContexts = {a, b}
  Attempts = 2
  MaxSwaps = 1
  Nobody = Nobody
  Boot = boot
  Restarts = {restart}
  Reloads = {reload}
  NoChild = NoChild
SPECIFICATION ServicesSpec
INVARIANTS
  LiveIsStoppable
  EntryOnCurrentContext
  
  McpTrue
  ProcessTrue
PROPERTIES
  WorkEnds
\* Calls, forwards and processes are bounded, so a part ends when all have ended.
CHECK_DEADLOCK FALSE
