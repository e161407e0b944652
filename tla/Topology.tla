------------------------------- MODULE Topology -------------------------------
(***************************************************************************)
(* The network map: HandleTopology copies the maps of the active cache,    *)
(* makes a node of each object, lets the discoverers of package graph draw *)
(* the edges, asks Hubble for the flows between pods, and collapses the    *)
(* pods of one owner into one node.                                        *)
(*                                                                         *)
(* The world is one namespace with a workload, a service that selects the  *)
(* labelled pods, an ingress to it, a policy that governs every pod, a     *)
(* claim and a node; pods may lie in another namespace, and be controlled  *)
(* by the workload or by an operator of a kind the map does not have.      *)
(* Both clusters hold the same objects, which is when flows of one can be  *)
(* drawn between pods of the other.                                        *)
(***************************************************************************)
EXTENDS Naturals, FiniteSets

CONSTANTS MapPods,
          Shapes,      \* what a pod may look like, see PodShape
          MapFlows,    \* flows that may be observed: [from, to, dropped]
          MapClusters,
          Missing

Others   == {"workload", "service", "ingress", "policy", "claim", "node"}
PodShape == [home : BOOLEAN,    \* it lies in the namespace
             owner : {"none", "workload", "operator"},   \* what controls it
             labelled : BOOLEAN, mounts : BOOLEAN, scheduled : BOOLEAN]

ASSUME ShapesAssumption == Shapes \subseteq PodShape

VARIABLES
  shape,     \* the pods of the cache: a shape, or Missing
  others,    \* the other objects of the cache; a kind that is denied has none
  homeOnly,  \* the request is for the namespace
  flows,     \* what Hubble has observed
  mapOf,     \* the cluster served
  mapStage,  \* the request: "none", "copied", "answered"
  nodesOf,   \* the cluster its maps were copied from
  flowsOf,   \* the cluster its flows come from
  moved,     \* history: the cluster was switched between the two
  graph      \* the answer

topoVars == <<shape, others, homeOnly, flows, mapOf, mapStage, nodesOf, flowsOf, moved, graph>>
world    == <<shape, others, homeOnly, flows>>

\* A node of the graph is the set of the objects it stands for.
Edge(s, t, k, l) == [source |-> {s}, target |-> {t}, kind |-> k, label |-> l]
NoGraph == [nodes |-> {}, edges |-> {}]

--------------------------------------------------------------------------
(* The nodes of the request                                                *)

PodNodes == {p \in MapPods : shape[p] # Missing /\ (homeOnly => shape[p].home)}
HomePods == {p \in PodNodes : shape[p].home}

\* The sources of HandleTopology: nodes are of no namespace, the rest is home.
InitialNodes == PodNodes \cup others

--------------------------------------------------------------------------
(* The discoverers.  An edge is drawn from what an object says, whether the *)
(* object at its other end is a node of the graph or not.                  *)

OwnerEdges ==
  {Edge(shape[p].owner, p, "controller-pod", "") :
     p \in {q \in PodNodes : shape[q].owner # "none"}}

SelectorEdges ==
  {Edge("service", p, "svc-pod", "") :
     p \in {q \in HomePods : "service" \in others /\ shape[q].labelled}}

VolumeEdges ==
  {Edge(p, "claim", "pod-pvc", "") : p \in {q \in PodNodes : shape[q].mounts}}

NodeEdges ==
  {Edge(p, "node", "pod-node", "") : p \in {q \in PodNodes : shape[q].scheduled}}

ConnectionEdges ==
  {Edge("ingress", "service", "ing-svc", "") : i \in others \cap {"ingress"}}

PolicyEdges ==
  {Edge("policy", p, "policy-pod", "") : p \in {q \in HomePods : "policy" \in others}}

\* One edge for a pair of distinct pods, dropped if any of its flows was.
FlowEdges ==
  LET seen == {f \in flows : {f.from, f.to} \subseteq PodNodes /\ f.from # f.to}
  IN  {Edge(f.from, f.to, "hubble-flow",
            IF \E g \in seen : g.from = f.from /\ g.to = f.to /\ g.dropped THEN "dropped" ELSE "") :
         f \in seen}

Discovered == OwnerEdges \cup SelectorEdges \cup VolumeEdges \cup NodeEdges
              \cup ConnectionEdges \cup PolicyEdges \cup FlowEdges

--------------------------------------------------------------------------
(* Collapsing                                                              *)

\* The pods that share an owner and a namespace, if there are several.
Replicas(p) == {q \in PodNodes : /\ shape[q].owner = shape[p].owner /\ shape[q].owner # "none"
                                 /\ shape[q].home = shape[p].home}

\* The node that stands for an object.
Stands(o) ==
  IF o \in PodNodes /\ Cardinality(Replicas(o)) > 1 THEN Replicas(o) ELSE {o}

\* The ends of an edge after collapsing; both are single objects before.
Moved(e) == [e EXCEPT !.source = UNION {Stands(o) : o \in @},
                      !.target = UNION {Stands(o) : o \in @}]
Alike(d, e) == d.source = e.source /\ d.target = e.target /\ d.kind = e.kind

\* Slip: the label tells edges apart.
SlipMerge(edges) == edges

\* Edges that fall together are one edge, and dropped if one of them was.
Merge(edges) ==
  {[e EXCEPT !.label = IF \E d \in edges : Alike(d, e) /\ d.label = "dropped"
                       THEN "dropped" ELSE @] : e \in edges}

Collapse(objects, edges) ==
  [nodes |-> {Stands(o) : o \in objects}, edges |-> Merge({Moved(e) : e \in edges})]

Build == Collapse(InitialNodes, Discovered)

--------------------------------------------------------------------------
(* A request, and the switches around it                                   *)

TopoInit ==
  /\ shape \in [MapPods -> Shapes \cup {Missing}]
  /\ others \in {o \cup {"ingress", "node"} :
                   o \in SUBSET {"workload", "service", "claim", "policy"}}
  /\ homeOnly \in BOOLEAN
  /\ flows \in SUBSET MapFlows
  /\ mapOf = CHOOSE c \in MapClusters : TRUE
  /\ mapStage = "none" /\ nodesOf = Missing /\ flowsOf = Missing
  /\ moved = FALSE /\ graph = NoGraph

\* Slip: the cache to copy is the one that was active when the server started.
SlipCopyMaps ==
  /\ mapStage = "none"
  /\ mapStage' = "copied" /\ nodesOf' = CHOOSE c \in MapClusters : TRUE
  /\ UNCHANGED <<world, mapOf, flowsOf, moved, graph>>

\* Under the read lock of the cache, which is let go before anything is drawn.
CopyMaps ==
  /\ mapStage = "none"
  /\ mapStage' = "copied" /\ nodesOf' = mapOf
  /\ UNCHANGED <<world, mapOf, flowsOf, moved, graph>>

\* The Hubble discoverer comes last and asks the cluster served by then; Build
\* and the answer follow.
AskFlows ==
  /\ mapStage = "copied"
  /\ mapStage' = "answered" /\ flowsOf' = mapOf /\ graph' = Build
  /\ UNCHANGED <<world, mapOf, nodesOf, moved>>

\* Once (a bound).
SwitchMap ==
  /\ mapStage # "answered" /\ mapOf = CHOOSE c \in MapClusters : TRUE
  /\ mapOf' \in MapClusters \ {mapOf}
  /\ moved' = (moved \/ mapStage = "copied")
  /\ UNCHANGED <<world, mapStage, nodesOf, flowsOf, graph>>

TopoNext == CopyMaps \/ AskFlows \/ SwitchMap
TopoSpec == TopoInit /\ [][TopoNext]_topoVars

--------------------------------------------------------------------------
(* Properties                                                              *)

TopoTypeOK ==
  /\ shape \in [MapPods -> Shapes \cup {Missing}] /\ others \subseteq Others
  /\ homeOnly \in BOOLEAN /\ flows \subseteq MapFlows /\ moved \in BOOLEAN
  /\ mapOf \in MapClusters /\ {nodesOf, flowsOf} \subseteq MapClusters \cup {Missing}
  /\ mapStage \in {"none", "copied", "answered"}
  /\ UNION graph.nodes \subseteq MapPods \cup Others

Shows(o) == {n \in graph.nodes : o \in n}

\* No pod is lost or shown twice when replicas are collapsed, and only replicas
\* of one owner are.
PodsShownOnce ==
  mapStage = "answered" =>
     /\ \A p \in PodNodes : Cardinality(Shows(p)) = 1
     /\ \A n \in graph.nodes : Cardinality(n) > 1 =>
           \A p, q \in n : shape[p].owner = shape[q].owner /\ shape[p].owner # "none"

\* An edge ends in a node that is shown, but for the objects that a shown one
\* names and the cache lacks; and it leads elsewhere, but for flows between
\* replicas.
EdgesLand ==
  \A e \in graph.edges :
     /\ e.source \notin graph.nodes => e.source \in {{"workload"}, {"operator"}}
     /\ e.target \notin graph.nodes => e.target \in {{"claim"}, {"service"}}
     /\ e.source = e.target => e.kind = "hubble-flow" /\ Cardinality(e.source) > 1

\* Traffic that was observed between two shown pods is drawn once, and as dropped
\* if and only if some of it was, whatever the pods were collapsed into.
FlowsKept ==
  mapStage = "answered" =>
     \A p, q \in PodNodes :
        LET between == {f \in flows : /\ f.from # f.to /\ {f.from, f.to} \subseteq PodNodes
                                      /\ Shows(f.from) = Shows(p) /\ Shows(f.to) = Shows(q)}
            drawn   == {e \in graph.edges : /\ e.kind = "hubble-flow"
                                            /\ {e.source} = Shows(p) /\ {e.target} = Shows(q)}
        IN  /\ Cardinality(drawn) = IF between = {} THEN 0 ELSE 1
            /\ \A e \in drawn : e.label = "dropped" <=> \E f \in between : f.dropped

\* Objects and flows are of one cluster, unless it was switched between the copy
\* of the maps and the call to Hubble.
OneClusterMap == mapStage = "answered" => moved \/ nodesOf = flowsOf

\* What the map of a cluster shows.
MapTrue == TopoTypeOK /\ PodsShownOnce /\ EdgesLand /\ FlowsKept /\ OneClusterMap
=============================================================================
