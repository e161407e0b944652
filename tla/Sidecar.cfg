CONSTANTS
  a = a
  b = b
  Requests = {q1}
  Clusters = {a, b}
  Steps = 2
  MaxCommits = 2
  Nil = Nil
  Readers = {q1, q2}
  Served = {a, b}
  MaxSwitches = 1
  MaxUrls = 1
  None = None
  Objects = {11}
  Events = {1, 2}
  MaxEvents = 1
  MaxStarts = 2
  MaxResyncs = 1
  MaxVersion = 2
  MapPods = {"p1", "p2", "p3"}
  Shapes <- const_shapes
  MapFlows <- const_flows
  MapClusters = {a, b}
  Missing = Missing
  ChainKeys = {"k1", "k2"}
  OtherOwner = other
  ChainClusters = {a, b}
  FirstChainCluster = a
  MaxDepth = 3
  MaxBirths = 2
  Gone0 = Gone0
  Probed = {pods}
  ClusterScoped = {}
  Verbs = {"list", "watch"}
  MaxCalls = 2
  MaxProbes = 2
  NoVerdict = NoVerdict
  ReadClusters = {a, b}
  FirstReadCluster = a
  VersionsServed <- const_served
  NoRead = NoRead
  RepoNames = {r1, r2}
  Adders = {d1, d2}
  Loaders = {l1, l2}
  MaxPublished = 2
  NoRepo = NoRepo
  Fetches = {x1}
  Tries = 3
  MaxRecords = 3
  MaxRestarts = 3
  Faults = {"write", "sync", "rotate"}
  CutLines = {"entry", "unended", "partial"}
  ArchivesExpire = TRUE
SPECIFICATION SideSpec
INVARIANTS
  
  CopiesTrue
  
  FilesTrue
PROPERTIES
  ImplementsTrail
\* Requests, switches, events and starts are bounded, so a part ends when all have ended.
CHECK_DEADLOCK FALSE
