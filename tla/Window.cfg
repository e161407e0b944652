CONSTANTS
  a = a
  b = b
  LogPods <- const_log_pods
  LogContexts = {a, b}
  FirstContext = a
  LogStarts = {s1, s2}
  Cleaners = {k1, k2}
  MaxLogSwitches = 1
  NoId = NoId
  Shells = {x1, x2}
  ExecContexts = {a, b}
  FirstExecContext = a
  MaxExecSwitches = 1
  NoShell = NoShell
  Launches = {l1, l2}
  NoLaunch = NoLaunch
  MaxBenchTurns = 1
  ScanContexts = {a, b}
  FirstScanContext = a
  KubeconfigContext = b
  MaxScans = 2
  MaxMoves = 1
  NoScan = NoScan
  Clusters <- const_clusters
  Severity <- const_severity
  SystemNamespaces = {"sys"}
  MaxHubClicks = 4
  MaxSifts = 1
  MaxOrders = 1
  MaxLoadsOfHub = 2
  Pods = {"p1", "p2"}
  Nodes = {"n1"}
  HomeOf <- const_home
  Namespaces = {"ns1", "ns2"}
  All = "_all"
  MaxLoads = 2
  MaxClicks = 2
  Nothing = "nothing"
  Objects <- const_objects
  ListContexts = {"a", "b"}
  FirstListContext = "a"
  Production = {"b"}
  Elsewhere = "dashboard"
  NoTarget = NoTarget
  MaxChoices = 2
  MaxTurns = 1
  Offers <- const_offers
  TypedPorts = {"", "8080"}
  NoOffer = NoOffer
  MaxFormActs = 3
  MaxFormAsks = 2
  MaxSeatTurns = 2
  ContainersOf <- const_containers
  MaxPanelClicks = 3
  MaxPolls = 1
  NoStream = NoStream
  PanelKinds = {"deployment", "statefulset", "cronjob", "hpa", "node", "ingress", "storage"}
  MaxAsked = 2
  MaxChanges = 1
  HelmContexts = {"a", "b"}
  FirstHelmContext = "a"
  HelmProduction = {"b"}
  MaxHelmAsks = 3
  MaxHelmTurns = 1
  NoHelm = NoHelm
  Queries = {"nginx"}
  FirstQuery = ""
  HintQuery = "hint"
  Versions <- const_versions
  MaxLooks = 2
  MaxInstalls = 2
  NoneYet = NoneYet
  TestContexts = {"a", "b"}
  FirstTestContext = "a"
  StepKeys <- const_steps
  MaxRuns = 2
  MaxScenes = 1
  NoPod = "nopod"
  Scenes = {"all", "ns1"}
  FirstScene = "all"
  Shapes <- const_shapes
  NodeFilters = {"pod", "node"}
  FlowFilter = "hubble-flow"
  MaxWorldSteps = 1
  MaxSceneSteps = 1
  NoGraph = NoGraph
  MaxActs = 2
  MaxPending = 1
  MaxNews = 6
  MaxUpdateActs = 4
  PluginNames = {"neat", "stern"}
  Repeatable = {"neat"}
  NoPlugin = "none"
  MaxOutput = 1
  MaxPrinted = 2
  MaxPluginRuns = 2
  MaxPluginActs = 2
  TableLines <- const_lines
  Places <- const_places
  FirstPlace <- const_first
  Deliveries <- const_deliveries
  Verdicts <- const_verdicts
  Controlled = {"a", "b"}
  MaxHubActs = 3
  MaxHubOdd = 1
  MaxHubMoves = 1
  NoDelivery = NoDelivery
  Panels = {"section", "definition"}
  Spots <- const_spots
  FirstSpot <- const_spot
  CustomNames <- const_customs
  Guarded = {"b"}
  MaxSpotMoves = 1
  MaxSaves = 1
  MaxReads = 1
  MaxCustomOdd = 0
  NoCustom = NoCustom
  Views <- const_views
  FirstView <- const_first
  WorldNames = {"calm", "worse"}
  WorldOf <- const_worlds
  FirstWorld = "calm"
  MaxProblems = 2
  MaxRecent = 2
  Slots = 2
  SoonDays = 1
  MaxEntries = 2
  MaxViewMoves = 1
  MaxDrifts = 1
  MaxAsks = 2
  MaxLogged = 3
  MaxRestarted = 1
  NoView = NoView
SPECIFICATION WindowSpec
INVARIANTS
  StreamsTrue
  
  PanelsTrue
  
  
  NetworkTrue
  
  ToolsTrue
PROPERTIES
  SelectionKept
\* Clicks, requests and switches are bounded, so a part ends when all have ended.
CHECK_DEADLOCK FALSE
