----------------------------- MODULE ClusterReads -----------------------------
(***************************************************************************)
(* The read handlers of the sidecar: each takes the active cache, or its   *)
(* clientset, once, and then reads informer maps that fill in stages, asks *)
(* the cluster directly, or both, while the window may switch away.        *)
(***************************************************************************)
EXTENDS Naturals, Sequences, FiniteSets

CONSTANTS ReadClusters, FirstReadCluster,
          VersionsServed,   \* [ReadClusters -> SUBSET GitVersions]
          NoRead

GitVersions == <<"v1", "v1beta2">>     \* gitopsGVRs: of one resource, preferred first

ASSUME ReadsAssumption ==
  /\ FirstReadCluster \in ReadClusters
  /\ VersionsServed \in [ReadClusters -> SUBSET {"v1", "v1beta2"}]

VARIABLES
  readOn,     \* the cluster of the active cache
  level,      \* [ReadClusters -> how far its informers are]
  refusedOf,  \* [ReadClusters -> SUBSET Listed]: AllowedResources, what it denies
  read        \* the request, or its answer when step is "done"; or NoRead

readVars == <<readOn, level, refusedOf, read>>

\* Of the resources of the registry one that SyncInformers waits for, and one not.
Critical == {"pods"}
Listed   == {"pods", "secrets"}
Guarded  == Listed \cup {"crds", "events"}
Direct   == {"gitops", "providers", "metrics", "patch"}
Handled  == Guarded \cup Direct \cup {"tls"}

\* What the map of a resource holds: TLS certificates are read off the secrets.
InMap(c, k) ==
  IF level[c] = "warm" \/ (level[c] = "critical" /\ k \in Critical)
  THEN {<<c, k>>} ELSE {}

\* What a handler asks the cluster for, in its order.
Asked(k) == CASE k = "gitops"    -> GitVersions
              [] k = "providers" -> <<"classes", "relay", "groups">>
              [] OTHER           -> <<k>>

ReadInit ==
  /\ readOn = FirstReadCluster
  /\ level = [c \in ReadClusters |-> "cold"] /\ refusedOf = [c \in ReadClusters |-> {}]
  /\ read = NoRead

--------------------------------------------------------------------------
(* The handlers                                                            *)

Free == read # NoRead => read.step = "done"
At(where) == read # NoRead /\ read.step = where
OtherReads == UNCHANGED <<readOn, level, refusedOf>>

Done(items) == [read EXCEPT !.step = "done", !.items = items, !.level = level[read.of]]

\* A request comes: the active cache, or its clientset and configuration.
Receive(k) ==
  /\ Free /\ OtherReads
  /\ read' = [kind |-> k, of |-> readOn, items |-> {}, denied |-> FALSE, failed |-> {},
              todo |-> Asked(k), level |-> level[readOn],
              step |-> IF k \in Guarded THEN "guard"
                       ELSE IF k \in Direct THEN "ask" ELSE "map"]

\* The RBAC guard of MakeHandler, HandleEvents and HandleCRDs.
Guard ==
  /\ At("guard") /\ OtherReads
  /\ read' = IF read.kind \in refusedOf[read.of]
             THEN [Done({}) EXCEPT !.denied = TRUE]
             ELSE [read EXCEPT !.step = "map"]

\* Slip: CRDs are asked for like any other resource, while HasData is not set.
SlipAsksCRDs(c) == level[c] = "cold"

\* The map of CRDs fills on its own time: they are asked for while it is empty.
AsksCRDs(c) == InMap(c, "crds") = {}

\* The informer maps; before they ever had data, or for CRDs while the map is
\* empty, the cluster is asked instead.
ReadMap ==
  /\ At("map") /\ OtherReads
  /\ read' = IF \/ read.kind \in Listed /\ level[read.of] = "cold"
                \/ read.kind = "crds" /\ AsksCRDs(read.of)
             THEN [read EXCEPT !.step = "ask"]
             ELSE Done(InMap(read.of, read.kind))

\* Slip: a version that was listed does not stop the next.
SlipNextVersions == Tail(read.todo)

\* HandleGitOps: the versions after one that was listed are left out.
NextVersions == <<>>

\* What a call answers.
ReadFound(source) ==
  CASE read.kind = "gitops" -> {<<read.of, source>>}
    [] read.kind = "patch"  -> {}
    [] OTHER                -> {<<read.of, source>>}

CanAnswer(source) == read.kind = "gitops" => source \in VersionsServed[read.of]

\* A call to the cluster answers.
AskOk ==
  /\ At("ask") /\ read.todo # <<>> /\ CanAnswer(Head(read.todo)) /\ OtherReads
  /\ read' = [read EXCEPT !.items = @ \cup ReadFound(Head(read.todo)),
                          !.todo = IF read.kind = "gitops" THEN NextVersions ELSE Tail(@)]

\* It fails: logged, or for GitOps not even that, and the next call is made.
AskFails ==
  /\ At("ask") /\ read.todo # <<>> /\ OtherReads
  /\ read' = [read EXCEPT !.failed = @ \cup {Head(read.todo)}, !.todo = Tail(@)]

\* No call is left. A list that failed is served from the map after all, the CRDs
\* as the empty map read before; metrics and patches answer the error.
ReadAnswered ==
  /\ At("ask") /\ read.todo = <<>> /\ OtherReads
  /\ read' = Done(IF read.kind \in Listed /\ read.failed # {}
                  THEN InMap(read.of, read.kind) ELSE read.items)

--------------------------------------------------------------------------
(* Meanwhile                                                               *)

\* The informers of a cluster get on: first those StartInformers waits for.
Fills(c) ==
  /\ level[c] # "warm"
  /\ level' = [level EXCEPT ![c] = IF @ = "cold" THEN "critical" ELSE "warm"]
  /\ UNCHANGED <<readOn, refusedOf, read>>

SetsDenied(c) ==
  /\ \E ks \in SUBSET Listed : refusedOf' = [refusedOf EXCEPT ![c] = ks]
  /\ UNCHANGED <<readOn, level, read>>

SwitchAway ==
  /\ \E c \in ReadClusters : readOn' = c
  /\ UNCHANGED <<level, refusedOf, read>>

ReadNext ==
  \/ \E k \in Handled : Receive(k)
  \/ Guard \/ ReadMap \/ AskOk \/ AskFails \/ ReadAnswered
  \/ \E c \in ReadClusters : Fills(c) \/ SetsDenied(c)
  \/ SwitchAway
ReadSpec == ReadInit /\ [][ReadNext]_readVars

--------------------------------------------------------------------------
(* Properties                                                              *)

ReadTypeOK ==
  /\ readOn \in ReadClusters /\ level \in [ReadClusters -> {"cold", "critical", "warm"}]
  /\ refusedOf \in [ReadClusters -> SUBSET Listed]
  /\ read # NoRead => /\ read.kind \in Handled /\ read.of \in ReadClusters
                      /\ read.step \in {"guard", "map", "ask", "done"}
                      /\ read.denied \in BOOLEAN

\* An answer that leaves out what the cluster has is accounted for: it says that it
\* was denied, a call failed, or the informer of a resource that nobody waits for
\* has not synced. Lists the sidecar waits for, and CRDs, are complete without
\* the last excuse (the fallbacks of MakeHandler and HandleCRDs).
AbsenceExplained ==
  At("done") /\ read.kind # "patch" /\ ~read.denied =>
    \/ read.failed # {}
    \/ read.items # {}
    \/ read.kind \in {"secrets", "tls", "events"} /\ read.level # "warm"
    \/ read.kind = "gitops" /\ VersionsServed[read.of] = {}

\* A GitOps object that the cluster serves in two versions is listed once, in the
\* preferred version unless listing that failed; and is missing only if listing
\* failed in every version the cluster serves (seenGroupResource).
VersionListedOnce ==
  At("done") /\ read.kind = "gitops" =>
    /\ Cardinality(read.items) <= 1
    /\ read.items = {} => VersionsServed[read.of] \subseteq read.failed
    /\ <<read.of, "v1beta2">> \in read.items => "v1" \in read.failed

\* What is said of the providers of a cluster rests on the calls that answered.
ProvidersTrue ==
  At("done") /\ read.kind = "providers" =>
    \A s \in {"classes", "relay", "groups"} :
      <<read.of, s>> \in read.items <=> s \notin read.failed

\* The answers of the read handlers.
ReadsTrue == ReadTypeOK /\ AbsenceExplained /\ VersionListedOnce /\ ProvidersTrue
=============================================================================
