---------------------------- MODULE TopologyPanel ----------------------------
(***************************************************************************)
(* The network panel (NetworkPanel.tsx): which graph it asks for, which    *)
(* answer it shows, and what its filters leave of it.  Its layouts and     *)
(* drawing are left out.                                                   *)
(*                                                                         *)
(* A scene is a context, a namespace and a window of flows: a new one      *)
(* makes the effects of the panel run.  A graph is known by its shape (its *)
(* nodes and labelled edges) and by the phases of its nodes.               *)
(***************************************************************************)
EXTENDS Naturals, FiniteSets

CONSTANTS
  Scenes, FirstScene,
  Shapes,          \* shape -> [nodes, edges]: a node is a kind, an edge [from, to, kind]
  NodeFilters,     \* KIND_DEFS
  FlowFilter,      \* the filter hubble-flow
  MaxWorldSteps,   \* bound: changes of the cluster
  MaxSceneSteps,   \* bound: changes of scene, clicks and polls
  NoGraph

ASSUME TopologyAssumption ==
  /\ FirstScene \in Scenes /\ NodeFilters # {} /\ NoGraph \notin DOMAIN Shapes
  /\ MaxWorldSteps \in Nat /\ MaxSceneSteps \in Nat

VARIABLES
  scene,         \* selectedContext, panelNs, flowWindowSecs
  switchingNow,  \* loadingNamespaces: a switch is under way
  world,         \* [shape, phase]: what the cluster has
  rawGraph,      \* [of, shape, phase], or NoGraph
  fingerprint,   \* graphFingerprintRef: a shape, or NoGraph
  graphAsks,     \* requests under way: [of, n, aborted, shape, phase]
  graphBusy,     \* loading and loadingRef
  relay,         \* providers.hubbleRelay
  filters,       \* visibleFilters
  newest,        \* history: the answer taken last, as rawGraph
  graphOdd,      \* history: what has happened out of the ordinary
  worldSteps, sceneSteps

graphVars == <<scene, switchingNow, world, rawGraph, fingerprint, graphAsks, graphBusy, relay,
               filters, newest, graphOdd, worldSteps, sceneSteps>>

ShapeSet == DOMAIN Shapes
AllFilters == NodeFilters \cup {FlowFilter}
World == [shape: ShapeSet, phase: 0..MaxWorldSteps]

TopologyTypeOK ==
  /\ scene \in Scenes /\ switchingNow \in BOOLEAN /\ world \in World
  /\ rawGraph = NoGraph \/ rawGraph \in [of: Scenes, shape: ShapeSet, phase: 0..MaxWorldSteps]
  /\ fingerprint \in ShapeSet \cup {NoGraph}
  /\ graphBusy \in BOOLEAN /\ relay \in BOOLEAN /\ filters \subseteq AllFilters

\* load, but not during a switch: it aborts the one under way.
Aborted == {[a EXCEPT !.aborted = TRUE] : a \in graphAsks}
AskedGraph(s) ==
  [of |-> s, n |-> worldSteps + sceneSteps, aborted |-> FALSE, answered |-> FALSE,
   shape |-> world.shape, phase |-> world.phase]
LoadGraph(s) == graphAsks' = Aborted \cup {AskedGraph(s)} /\ graphBusy' = TRUE

TopologyInit ==
  /\ scene = FirstScene /\ switchingNow = FALSE
  /\ world \in [shape: ShapeSet, phase: {0}]
  /\ rawGraph = NoGraph /\ fingerprint = NoGraph /\ newest = NoGraph
  /\ worldSteps = 0 /\ sceneSteps = 0
  /\ graphAsks = {[of |-> FirstScene, n |-> 0, aborted |-> FALSE, answered |-> FALSE,
                   shape |-> world.shape, phase |-> world.phase]}
  /\ graphBusy = TRUE /\ relay \in BOOLEAN
  /\ filters = NodeFilters /\ graphOdd = {}

SceneStep == sceneSteps < MaxSceneSteps /\ sceneSteps' = sceneSteps + 1

\* Slip: the fingerprint of the old scene stays.
SlipForgotten == fingerprint
\* The effect of another scene: fresh data is to be shown even if it looks the same.
Forgotten == NoGraph

\* A namespace or a window is chosen; the select of namespaces is disabled while one
\* loads, but not the one of windows, nor the side bar's.
ChooseScene(s) ==
  /\ SceneStep /\ s # scene /\ ~switchingNow
  /\ scene' = s /\ fingerprint' = Forgotten /\ LoadGraph(s)
  /\ graphOdd' = graphOdd \ {"load failed"}
  /\ UNCHANGED <<switchingNow, world, rawGraph, relay, filters, newest, worldSteps>>

\* A switch of context: nothing is asked for until it is over.
SwitchStarts(s) ==
  /\ SceneStep /\ ~switchingNow /\ switchingNow' = TRUE /\ s # scene /\ scene' = s
  /\ fingerprint' = Forgotten /\ graphAsks' = Aborted /\ graphBusy' = FALSE /\ relay' = FALSE
  /\ graphOdd' = graphOdd \ {"load failed"}
  /\ UNCHANGED <<world, rawGraph, filters, newest, worldSteps>>

SwitchOver(hubble) ==
  /\ switchingNow /\ switchingNow' = FALSE
  /\ relay' = hubble /\ LoadGraph(scene)
  /\ UNCHANGED <<scene, world, rawGraph, fingerprint, filters, newest, graphOdd, worldSteps,
                 sceneSteps>>

\* The interval of a panel with a relay, and the button: not while a load is under way.
ReloadGraph ==
  /\ SceneStep /\ ~graphBusy /\ ~switchingNow /\ LoadGraph(scene)
  /\ UNCHANGED <<scene, switchingNow, world, rawGraph, fingerprint, relay, filters, newest,
                 graphOdd, worldSteps>>

\* The cluster changes: its shape, or a phase only.
WorldChanges(w) ==
  /\ worldSteps < MaxWorldSteps /\ worldSteps' = worldSteps + 1
  /\ w.phase = worldSteps' /\ world' = w
  /\ UNCHANGED <<scene, switchingNow, rawGraph, fingerprint, graphAsks, graphBusy, relay,
                 filters, newest, graphOdd, sceneSteps>>

GraphServed(a) ==
  /\ a \in graphAsks /\ ~a.answered
  /\ graphAsks' = (graphAsks \ {a}) \cup
       {[a EXCEPT !.answered = TRUE, !.shape = world.shape, !.phase = world.phase]}
  /\ UNCHANGED <<scene, switchingNow, world, rawGraph, fingerprint, graphBusy, relay, filters,
                 newest, graphOdd, worldSteps, sceneSteps>>

\* Slip: an answer is taken though its request was aborted.
SlipTaken(a) == TRUE
Taken(a) == ~a.aborted

\* Slip: the graph is never compared with the one on display, but the shape noted.
SlipSameShape(shape) == rawGraph # NoGraph
\* A graph of the same shape is not shown again: the layout would jump.
SameShape(shape) == shape = fingerprint

GraphArrives(a, ok) ==
  /\ a \in graphAsks /\ a.answered /\ graphAsks' = graphAsks \ {a}
  /\ LET g == [of |-> a.of, shape |-> a.shape, phase |-> a.phase]
     IN  IF ~Taken(a) THEN UNCHANGED <<rawGraph, fingerprint, graphBusy, newest, graphOdd>>
         ELSE /\ graphBusy' = FALSE
              /\ newest' = IF ok THEN g ELSE newest
              /\ IF ok /\ ~SameShape(a.shape) THEN rawGraph' = g /\ fingerprint' = a.shape
                 ELSE UNCHANGED <<rawGraph, fingerprint>>
              /\ graphOdd' = IF ok THEN graphOdd \ {"load failed"}
                             ELSE graphOdd \cup {"load failed"}
  /\ UNCHANGED <<scene, switchingNow, world, relay, filters, worldSteps, sceneSteps>>

\* Slip: the last filter can be taken away.
SlipToggled(f) == IF f \in filters THEN filters \ {f} ELSE filters \cup {f}
\* The last filter stays.
Toggled(f) ==
  IF f \in filters /\ Cardinality(filters) > 1 THEN filters \ {f} ELSE filters \cup {f}

ToggleFilter(f) ==
  /\ ~graphBusy /\ filters' = Toggled(f)
  /\ UNCHANGED <<scene, switchingNow, world, rawGraph, fingerprint, graphAsks, graphBusy,
                 relay, newest, graphOdd, worldSteps, sceneSteps>>

--------------------------------------------------------------------------
(* What is drawn                                                           *)

NodesDrawn ==
  IF rawGraph = NoGraph THEN {}
  ELSE IF NodeFilters \subseteq filters THEN Shapes[rawGraph.shape].nodes
  ELSE Shapes[rawGraph.shape].nodes \cap filters

\* Slip: only one end of an edge is looked for.
SlipBothEnds(e) == e.from \in NodesDrawn
BothEnds(e) == e.from \in NodesDrawn /\ e.to \in NodesDrawn

\* Without a filter on the nodes no edge is looked at twice.
EdgesDrawn ==
  IF rawGraph = NoGraph THEN {}
  ELSE {e \in Shapes[rawGraph.shape].edges :
          /\ e.kind = FlowFilter => FlowFilter \in filters
          /\ NodeFilters \subseteq filters \/ BothEnds(e)}

TopologyNext ==
  \/ \E s \in Scenes : ChooseScene(s) \/ SwitchStarts(s)
  \/ \E hubble \in BOOLEAN : SwitchOver(hubble)
  \/ ReloadGraph
  \/ \E w \in World : WorldChanges(w)
  \/ \E a \in graphAsks : GraphServed(a) \/ \E ok \in BOOLEAN : GraphArrives(a, ok)
  \/ \E f \in AllFilters : ToggleFilter(f)

TopologySpec == TopologyInit /\ [][TopologyNext]_graphVars

--------------------------------------------------------------------------
(* Properties                                                              *)

\* With no spinner the graph on display is of the scene, unless its load has failed:
\* then the graph of another one stays, and nothing says so.
GraphOfScene ==
  ~graphBusy /\ ~switchingNow /\ rawGraph # NoGraph /\ rawGraph.of # scene =>
     "load failed" \in graphOdd

\* It has the shape of the newest answer.  Its phases may be those of an older one of
\* the same scene, for phases are not compared.
GraphIsNewest ==
  ~graphBusy /\ newest # NoGraph /\ newest.of = scene =>
     rawGraph.shape = newest.shape /\ rawGraph.phase <= newest.phase

\* The spinner, which disables the buttons, turns just while an answer is awaited.
SpinnerAwaits == graphBusy <=> \E a \in graphAsks : ~a.aborted

\* No more than one load of the panel is to be shown.
OneLoad == Cardinality({a \in graphAsks : ~a.aborted}) <= 1

\* Something can be seen, of the kinds that are chosen; and an edge without an end is
\* drawn only if no kind of node is hidden, as the graph has it.
FiltersTell ==
  /\ filters # {}
  /\ \A e \in EdgesDrawn : {e.from, e.to} \subseteq NodesDrawn \/ NodeFilters \subseteq filters

\* The panel draws the graph of the scene that is chosen.
NetworkPanelTrue ==
  /\ TopologyTypeOK /\ GraphOfScene /\ GraphIsNewest /\ SpinnerAwaits /\ OneLoad
  /\ FiltersTell

=============================================================================
