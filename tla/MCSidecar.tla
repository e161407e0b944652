-------------------------------- MODULE MCSidecar -----------------------------
(* Small instances of parts of the sidecar that share no state, and of the *)
(* requests to it, explored side by side: one of them runs, the others     *)
(* stay as they start.                                                     *)
EXTENDS Operations, ClusterCaches, ResourceMaps, Topology, OwnerChain, RbacProbe,
        ClusterReads, HelmRepo, AuditLog, SidecarFetch, TLC

CONSTANTS a, b   \* clusters

VARIABLE part   \* the part that runs

Shape(h, o, l, m, s) ==
  [home |-> h, owner |-> o, labelled |-> l, mounts |-> m, scheduled |-> s]
const_shapes ==
  {Shape(TRUE, "workload", TRUE, TRUE, TRUE), Shape(TRUE, "operator", FALSE, TRUE, FALSE),
   Shape(FALSE, "none", TRUE, FALSE, TRUE)}
Flow(p, q, d) == [from |-> p, to |-> q, dropped |-> d]
const_flows ==
  {Flow("p1", "p2", FALSE), Flow("p2", "p1", TRUE), Flow("p3", "p1", FALSE),
   Flow("p3", "p2", TRUE)}
const_served == (a :> {"v1", "v1beta2"}) @@ (b :> {"v1beta2"})

all == <<opsVars, cachesVars, mapsVars, topoVars, chainVars, probeVars, readVars,
         helmVars, auditVars, fetchVars, part>>

SideInit ==
  /\ part \in {"operations", "caches", "maps", "topology", "chain", "probe", "reads",
               "repo", "audit", "fetch"}
  /\ OpsInit /\ CachesInit /\ MapsInit /\ TopoInit /\ ChainInit /\ ProbeInit /\ ReadInit
  /\ RepoInit /\ AuditInit /\ FetchInit
  \* A map of one fixed cluster stands for all where the map does not run.
  /\ part # "topology" =>
       /\ shape = [p \in MapPods |-> Missing] /\ others = {"ingress", "node"}
       /\ homeOnly /\ flows = {}
  /\ part # "fetch" => serving

SideNext ==
  /\ UNCHANGED part
  /\ \/ /\ part = "operations" /\ OpsNext
        /\ UNCHANGED <<cachesVars, mapsVars, topoVars, chainVars, probeVars, readVars,
                       helmVars, auditVars, fetchVars>>
     \/ /\ part = "caches" /\ CachesNext
        /\ UNCHANGED <<opsVars, mapsVars, topoVars, chainVars, probeVars, readVars,
                       helmVars, auditVars, fetchVars>>
     \/ /\ part = "maps" /\ MapsNext
        /\ UNCHANGED <<opsVars, cachesVars, topoVars, chainVars, probeVars, readVars,
                       helmVars, auditVars, fetchVars>>
     \/ /\ part = "topology" /\ TopoNext
        /\ UNCHANGED <<opsVars, cachesVars, mapsVars, chainVars, probeVars, readVars,
                       helmVars, auditVars, fetchVars>>
     \/ /\ part = "chain" /\ ChainNext
        /\ UNCHANGED <<opsVars, cachesVars, mapsVars, topoVars, probeVars, readVars,
                       helmVars, auditVars, fetchVars>>
     \/ /\ part = "probe" /\ ProbeNext
        /\ UNCHANGED <<opsVars, cachesVars, mapsVars, topoVars, chainVars, readVars,
                       helmVars, auditVars, fetchVars>>
     \/ /\ part = "reads" /\ ReadNext
        /\ UNCHANGED <<opsVars, cachesVars, mapsVars, topoVars, chainVars, probeVars,
                       helmVars, auditVars, fetchVars>>
     \/ /\ part = "repo" /\ RepoNext
        /\ UNCHANGED <<opsVars, cachesVars, mapsVars, topoVars, chainVars, probeVars,
                       readVars, auditVars, fetchVars>>
     \/ /\ part = "audit" /\ AuditNext
        /\ UNCHANGED <<opsVars, cachesVars, mapsVars, topoVars, chainVars, probeVars,
                       readVars, helmVars, fetchVars>>
     \/ /\ part = "fetch" /\ FetchNext
        /\ UNCHANGED <<opsVars, cachesVars, mapsVars, topoVars, chainVars, probeVars,
                       readVars, helmVars, auditVars>>
SideSpec == SideInit /\ [][SideNext]_all

\* What the handlers do and answer, the verdict they are guarded by, and what
\* becomes of a request to them.
HandlersTrue ==
  /\ part = "operations" => OpsTrue
  /\ part = "reads" => ReadsTrue
  /\ part = "probe" => VerdictExplained
  /\ part = "fetch" => RequestsTrue

\* What the sidecar keeps of the clusters in memory.
CopiesTrue ==
  /\ part = "caches" => CachesTrue
  /\ part = "maps" => MapsTrue

\* What the graphs and the owner chains show of a cluster.
GraphsTrue ==
  /\ part = "topology" => MapTrue
  /\ part = "chain" => ChainTrue

\* What the sidecar keeps in files.
FilesTrue ==
  /\ part = "repo" => RepoTrue
  /\ part = "audit" => AuditTrue
==============================================================================
