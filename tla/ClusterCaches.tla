---------------------------- MODULE ClusterCaches ----------------------------
(***************************************************************************)
(* The sidecar's caches of what a cluster said, while the served context   *)
(* changes: Helm configurations, preferred API versions and Prometheus     *)
(* results.  Each is filled outside its lock by the requests that miss.    *)
(* They differ in what makes an entry belong to a cluster: Helm's key is   *)
(* read once with the coordinates it is built from, a version's key apart  *)
(* from the clientset it is asked of, and a Prometheus key holds a         *)
(* generation that a switch and a change of URL advance.                   *)
(***************************************************************************)
EXTENDS Naturals, FiniteSets

CONSTANTS Readers,      \* requests
          Served,       \* contexts, each the name of a cluster
          MaxSwitches,  \* bound on context switches
          MaxUrls,      \* bound on changes of the manual URL
          None

AutoUrl == "auto"       \* no manual URL: the served cluster's Prometheus
Manual  == "manual"     \* a Prometheus outside any cluster

ASSUME CachesAssumption ==
  /\ Served # {} /\ None \notin Served \cup {Manual}
  /\ Manual \notin Served
  /\ MaxSwitches \in Nat /\ MaxUrls \in Nat

VARIABLES
  now,        \* ActiveContextName and ActiveCache
  left,       \* history: the context the last switch left
  clearing,   \* what the running switch clears next
  switched,   \* switches committed (bounded)
  configs,    \* configCache: the cluster each context's configuration talks to
  groups,     \* groupListMap: whose API groups a context's entry lists
  versions,   \* gvCacheMap: the same for a preferred version
  generation, \* cacheGeneration
  url,        \* manualURL
  urls,       \* changes of the URL (bounded)
  results,    \* queryCache: sources of the entries, by key
  flights,    \* fetchGroup: keys being fetched, with the reader that fetches
  step,       \* where a reader is
  cache,      \* the cache it goes through
  writes,     \* it is a Helm operation that writes
  asks,       \* the cluster of the clientset or configuration it holds
  key,        \* the key it looks up
  got,        \* the source of its answer
  runs,       \* history: how often its Helm operation was run
  since,      \* history: the sources current since it began
  torn        \* history: readers whose key and clientset straddle a commit

cachesVars == <<now, left, clearing, switched, configs, groups, versions, generation, url, urls,
                results, flights, step, cache, writes, asks, key, got, runs, since, torn>>

stores  == <<configs, groups, versions, generation, url, urls, results, flights>>
switch  == <<now, left, clearing, switched>>
readers == <<step, cache, writes, asks, key, got, runs, since, torn>>

Sources == Served \cup {Manual}
PromKey == [gen : Nat, url : {AutoUrl, Manual}]
Keys    == Served \cup PromKey

CachesTypeOK ==
  /\ now \in Served
  /\ left \in Served
  /\ clearing \in {"nothing", "configs", "versions", "results"}
  /\ switched \in 0 .. MaxSwitches
  /\ configs \in [Served -> Served \cup {None}]
  /\ groups \in [Served -> Served \cup {None}]
  /\ versions \in [Served -> Served \cup {None}]
  /\ generation \in Nat
  /\ url \in {AutoUrl, Manual}
  /\ urls \in 0 .. MaxUrls
  /\ results \subseteq [key : PromKey, source : Sources \cup {None}]
  /\ flights \subseteq [key : PromKey, leader : Readers]
  /\ step \in [Readers -> {"idle", "naming", "looking", "building", "listing", "lead",
                           "sent", "joined", "storing", "running", "again", "done"}]
  /\ cache \in [Readers -> {"helm", "versions", "results", None}]
  /\ writes \in [Readers -> BOOLEAN]
  /\ asks \in [Readers -> Sources \cup {None}]
  /\ got \in [Readers -> Sources \cup {None}]
  /\ runs \in [Readers -> 0 .. 2]
  /\ since \in [Readers -> SUBSET Sources]
  /\ torn \subseteq Readers

CachesInit ==
  /\ now = CHOOSE c \in Served : TRUE
  /\ left = now /\ clearing = "nothing" /\ switched = 0
  /\ configs = [c \in Served |-> None]
  /\ groups = [c \in Served |-> None]
  /\ versions = [c \in Served |-> None]
  /\ generation = 0 /\ url = AutoUrl /\ urls = 0
  /\ results = {} /\ flights = {}
  /\ step = [q \in Readers |-> "idle"]
  /\ cache = [q \in Readers |-> None]
  /\ writes = [q \in Readers |-> FALSE]
  /\ asks = [q \in Readers |-> None]
  /\ key = [q \in Readers |-> None]
  /\ got = [q \in Readers |-> None]
  /\ runs = [q \in Readers |-> 0]
  /\ since = [q \in Readers |-> {}]
  /\ torn = {}

Go(q, s)      == step' = [step EXCEPT ![q] = s]
Finish(q, v)  == Go(q, "done") /\ got' = [got EXCEPT ![q] = v]
Current(c, u) == IF u = AutoUrl THEN c ELSE Manual
Widen(v)      == since' = [q \in Readers |-> IF step[q] \in {"idle", "done"} THEN since[q]
                                             ELSE since[q] \cup {v}]

\* A request that begins while a switch still clears may see what it replaces.
Begin(q, k) ==
  /\ step[q] = "idle"
  /\ cache' = [cache EXCEPT ![q] = k]
  /\ LET seen == IF clearing = "nothing" THEN {now} ELSE {now, left}
     IN  since' = [since EXCEPT ![q] = IF k = "results" THEN {Current(c, url) : c \in seen}
                                       ELSE seen]

--------------------------------------------------------------------------
(* Helm: getActionConfig and helmRun                                       *)

\* The handler reads kubeconfig path and context name under one lock.
HelmBegin(q) ==
  /\ Begin(q, "helm")
  /\ key' = [key EXCEPT ![q] = now]
  /\ \E w \in BOOLEAN : writes' = [writes EXCEPT ![q] = w]
  /\ Go(q, "looking")
  /\ UNCHANGED <<switch, stores, asks, got, runs, torn>>

HelmLookup(q) ==
  /\ step[q] \in {"looking", "again"} /\ cache[q] = "helm"
  /\ IF configs[key[q]] # None
     THEN asks' = [asks EXCEPT ![q] = configs[key[q]]] /\ Go(q, "running")
     ELSE UNCHANGED asks /\ Go(q, "building")
  /\ UNCHANGED <<switch, stores, cache, writes, key, got, runs, since, torn>>

\* newActionConfig runs unlocked; an entry made meanwhile wins.
HelmBuild(q) ==
  /\ step[q] = "building"
  /\ \/ LET built == IF configs[key[q]] # None THEN configs[key[q]] ELSE key[q]
        IN  /\ configs' = [configs EXCEPT ![key[q]] = built]
            /\ asks' = [asks EXCEPT ![q] = built]
            /\ Go(q, "running")
            /\ UNCHANGED got
     \/ Finish(q, None) /\ UNCHANGED <<configs, asks>>
  /\ UNCHANGED <<switch, groups, versions, generation, url, urls, results, flights, cache,
                 writes, key, runs, since, torn>>

\* A transient error evicts the entry, and only a reading operation is run
\* again; a successful writing one evicts too.
\* Slip: every operation is run again.
SlipRetries(q) == TRUE
Retries(q)     == ~writes[q]

HelmRun(q) ==
  /\ step[q] = "running"
  /\ runs' = [runs EXCEPT ![q] = @ + 1]
  /\ \/ /\ Finish(q, asks[q])
        /\ configs' = IF writes[q] THEN [configs EXCEPT ![key[q]] = None] ELSE configs
     \/ /\ runs[q] = 0
        /\ configs' = [configs EXCEPT ![key[q]] = None]
        /\ IF Retries(q) THEN Go(q, "again") /\ UNCHANGED got ELSE Finish(q, None)
     \/ Finish(q, None) /\ UNCHANGED configs
  /\ UNCHANGED <<switch, groups, versions, generation, url, urls, results, flights, cache,
                 writes, asks, key, since, torn>>

--------------------------------------------------------------------------
(* Preferred API versions: preferredGroupVersion and serverGroups          *)

\* The handler takes the clientset first ...
VersionsBegin(q) ==
  /\ Begin(q, "versions")
  /\ asks' = [asks EXCEPT ![q] = now]
  /\ Go(q, "naming")
  /\ UNCHANGED <<switch, stores, writes, key, got, runs, torn>>

\* ... and preferredGroupVersion reads the context name for the key later.
VersionsName(q) ==
  /\ step[q] = "naming" /\ cache[q] = "versions"
  /\ key' = [key EXCEPT ![q] = now]
  /\ torn' = IF now # asks[q] THEN torn \cup {q} ELSE torn
  /\ Go(q, "looking")
  /\ UNCHANGED <<switch, stores, cache, writes, asks, got, runs, since>>

VersionsLookup(q) ==
  /\ step[q] = "looking" /\ cache[q] = "versions"
  /\ IF versions[key[q]] # None THEN Finish(q, versions[key[q]])
     ELSE Go(q, "listing") /\ UNCHANGED got
  /\ UNCHANGED <<switch, stores, cache, writes, asks, key, runs, since, torn>>

\* serverGroups: the list of the key's context, else the clientset's cluster's,
\* unless another reader's was stored meanwhile.
ServerGroups(q) ==
  /\ step[q] = "listing"
  /\ \/ LET list == IF groups[key[q]] # None THEN groups[key[q]] ELSE asks[q]
        IN  /\ groups' = [groups EXCEPT ![key[q]] = list]
            /\ got' = [got EXCEPT ![q] = list]
            /\ Go(q, "storing")
     \/ Finish(q, None) /\ UNCHANGED groups
  /\ UNCHANGED <<switch, configs, versions, generation, url, urls, results, flights, cache,
                 writes, asks, key, runs, since, torn>>

VersionsStore(q) ==
  /\ step[q] = "storing" /\ cache[q] = "versions"
  /\ LET held == IF versions[key[q]] # None THEN versions[key[q]] ELSE got[q]
     IN  /\ versions' = [versions EXCEPT ![key[q]] = held]
         /\ Finish(q, held)
  /\ UNCHANGED <<switch, configs, groups, generation, url, urls, results, flights, cache,
                 writes, asks, key, runs, since, torn>>

--------------------------------------------------------------------------
(* Prometheus: queryRangeSingle, fetchQueryRange and singleflight           *)

Found(k)    == {e \in results : e.key = k}
Fetching(k) == {f \in flights : f.key = k}

\* The generation is loaded first, the URL under its own lock after it.
ResultsBegin(q) ==
  /\ Begin(q, "results")
  /\ key' = [key EXCEPT ![q] = [gen |-> generation, url |-> AutoUrl]]
  /\ Go(q, "naming")
  /\ UNCHANGED <<switch, stores, writes, asks, got, runs, torn>>

ResultsName(q) ==
  /\ step[q] = "naming" /\ cache[q] = "results"
  /\ key' = [key EXCEPT ![q].url = url]
  /\ Go(q, "looking")
  /\ UNCHANGED <<switch, stores, cache, writes, asks, got, runs, since, torn>>

\* A fresh entry answers; else the first caller of a key fetches for the rest.
ResultsLookup(q) ==
  /\ step[q] = "looking" /\ cache[q] = "results"
  /\ IF Found(key[q]) # {}
     THEN /\ \E e \in Found(key[q]) : Finish(q, e.source)
          /\ UNCHANGED flights
     ELSE /\ IF Fetching(key[q]) = {}
             THEN /\ flights' = flights \cup {[key |-> key[q], leader |-> q]}
                  /\ Go(q, "lead")
             ELSE UNCHANGED flights /\ Go(q, "joined")
          /\ UNCHANGED got
  /\ UNCHANGED <<switch, configs, groups, versions, generation, url, urls, results, cache,
                 writes, asks, key, runs, since, torn>>

\* fetchQueryRange reads URL and clientset anew.
Fetch(q) ==
  /\ step[q] = "lead"
  /\ asks' = [asks EXCEPT ![q] = Current(now, url)]
  /\ Go(q, "sent")
  /\ UNCHANGED <<switch, stores, cache, writes, key, got, runs, since, torn>>

\* The answer, or an error (also when the leader's caller goes away), goes to
\* everyone who joined.
Answered(q) ==
  /\ step[q] = "sent"
  /\ \E v \in {asks[q], None} :
        LET all == {q} \cup {p \in Readers : step[p] = "joined" /\ key[p] = key[q]}
        IN  /\ got' = [p \in Readers |-> IF p \in all THEN v ELSE got[p]]
            /\ step' = [p \in Readers |-> IF p \in all THEN "storing" ELSE step[p]]
  /\ flights' = {f \in flights : f.leader # q}
  /\ UNCHANGED <<switch, configs, groups, versions, generation, url, urls, results, cache,
                 writes, asks, key, runs, since, torn>>

\* Every caller stores what it got, errors too (for a shorter time).
ResultsStore(q) ==
  /\ step[q] = "storing" /\ cache[q] = "results"
  /\ results' = (results \ Found(key[q])) \cup {[key |-> key[q], source |-> got[q]]}
  /\ Go(q, "done")
  /\ UNCHANGED <<switch, configs, groups, versions, generation, url, urls, flights, cache,
                 writes, asks, key, got, runs, since, torn>>

\* SetManualURL: the URL, then the generation (no reader of the URL gets in
\* between).  An invalid URL resets it and leaves the generation alone.
SetManualURL ==
  /\ urls < MaxUrls
  /\ urls' = urls + 1
  /\ \/ \E u \in {AutoUrl, Manual} : url' = u /\ generation' = generation + 1
     \/ url' = AutoUrl /\ UNCHANGED generation
  /\ Widen(Current(now, url'))
  /\ UNCHANGED <<switch, configs, groups, versions, results, flights, step, cache, writes,
                 asks, key, got, runs, torn>>

--------------------------------------------------------------------------
(* The switch, and time                                                    *)

CommitContext(c) ==
  /\ clearing = "nothing" /\ switched < MaxSwitches /\ c # now
  /\ now' = c /\ left' = now
  /\ switched' = switched + 1
  /\ clearing' = "configs"
  /\ since' = [q \in Readers |-> IF step[q] \in {"idle", "done"} THEN since[q]
                                 ELSE since[q] \cup {c, Current(c, url)}]
  /\ UNCHANGED <<stores, step, cache, writes, asks, key, got, runs, torn>>

ClearConfigs ==
  /\ clearing = "configs" /\ clearing' = "versions"
  /\ configs' = [c \in Served |-> None]
  /\ UNCHANGED <<now, left, switched, groups, versions, generation, url, urls, results, flights,
                 readers>>

ClearVersions ==
  /\ clearing = "versions" /\ clearing' = "results"
  /\ versions' = [c \in Served |-> None]
  /\ groups' = [c \in Served |-> None]
  /\ UNCHANGED <<now, left, switched, configs, generation, url, urls, results, flights, readers>>

\* Slip: entries are dropped, but the generation stays.
SlipClearCache == results' = {} /\ UNCHANGED generation
ClearCache     == results' = {} /\ generation' = generation + 1

ClearResults ==
  /\ clearing = "results" /\ clearing' = "nothing"
  /\ ClearCache
  /\ UNCHANGED <<now, left, switched, configs, groups, versions, url, urls, flights, readers>>

\* Entries expire at any time.
Expire ==
  /\ \/ \E c \in Served : /\ configs[c] # None
                          /\ configs' = [configs EXCEPT ![c] = None]
                          /\ UNCHANGED <<groups, versions, results>>
     \/ \E c \in Served : /\ groups[c] # None
                          /\ groups' = [groups EXCEPT ![c] = None]
                          /\ UNCHANGED <<configs, versions, results>>
     \/ \E c \in Served : /\ versions[c] # None
                          /\ versions' = [versions EXCEPT ![c] = None]
                          /\ UNCHANGED <<configs, groups, results>>
     \/ \E e \in results : results' = results \ {e} /\ UNCHANGED <<configs, groups, versions>>
  /\ UNCHANGED <<switch, generation, url, urls, flights, readers>>

CachesNext ==
  \/ \E q \in Readers :
        \/ HelmBegin(q) \/ HelmLookup(q) \/ HelmBuild(q) \/ HelmRun(q)
        \/ VersionsBegin(q) \/ VersionsName(q) \/ VersionsLookup(q) \/ ServerGroups(q)
        \/ VersionsStore(q)
        \/ ResultsBegin(q) \/ ResultsName(q) \/ ResultsLookup(q) \/ Fetch(q) \/ Answered(q)
        \/ ResultsStore(q)
  \/ SetManualURL
  \/ \E c \in Served : CommitContext(c)
  \/ ClearConfigs \/ ClearVersions \/ ClearResults
  \/ Expire

CachesSpec == CachesInit /\ [][CachesNext]_cachesVars

--------------------------------------------------------------------------
(* Properties                                                              *)

\* What a request is answered comes from a cluster (or a manual URL) that was
\* current at some moment since it began, or that a switch was replacing when it
\* began: it is neither an entry of a cluster left earlier, nor one that a
\* request of before the switch filled in after the clear.  The exception are
\* API versions once a request has taken its clientset before a commit and its
\* key after: it files the versions of the old cluster under the new one's
\* name, for all that come after.
NoForeignAnswer ==
  \A q \in Readers : step[q] = "done" /\ got[q] # None =>
     \/ got[q] \in since[q]
     \/ cache[q] = "versions" /\ torn # {}

\* The comment on ClearGVCache: clearing on a switch prevents that API groups of
\* one cluster are served to another.
VersionsOfContext == \A c \in Served : versions[c] \in {c, None}

\* A Helm operation that writes is run once: an answer lost after the server
\* has carried it out must not run it a second time.
WritesRunOnce == \A q \in Readers : writes[q] => runs[q] <= 1

\* What the sidecar's caches of a cluster give to requests across a switch.
CachesTrue == CachesTypeOK /\ NoForeignAnswer /\ WritesRunOnce
=============================================================================
