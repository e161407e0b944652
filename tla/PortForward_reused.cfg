CONSTANTS
  Ids = {i1}
  Calls = {f1, f2}
  Switchers = {s}
  Contexts = {a, b}
  UniqueIds = FALSE
  Nil = Nil
SPECIFICATION Spec
INVARIANTS LiveIsStoppable
