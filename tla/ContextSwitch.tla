--------------------------- MODULE ContextSwitch ---------------------------
(***************************************************************************)
(* The sidecar's context switch: HandleSwitchContext, the goroutine it     *)
(* launches (runContextSwitch), the RBAC probe, the life of the            *)
(* per-context informer caches, and the sidecar's own start-up, which runs *)
(* the same probe and the same informers on the initial context.           *)
(*                                                                         *)
(* A switch is one thread: the handler body, then the goroutine that body  *)
(* launches as its last step.  Each critical section of the code, between  *)
(* two lock operations, is one action.                                     *)
(***************************************************************************)
EXTENDS Naturals, FiniteSets, TLC

CONSTANTS
  Contexts,       \* context names a request may carry
  Loadable,       \* those the kubeconfig holds and a clientset can be built for
  Switches,       \* switch requests; each is made at most once
  Startup,        \* the start-up thread of main()
  InitialContext, \* the kubeconfig's current context, or Nil in setup mode
  MaxInFlight,    \* bound: HandleSwitchContext bodies running at the same time
  Nil

ASSUME ConstantsAssumption ==
  /\ Loadable \subseteq Contexts
  /\ InitialContext \in Loadable \cup {Nil}
  /\ MaxInFlight \in Nat
  /\ Contexts \cap Switches = {}
  /\ Startup \notin Switches
  /\ Nil \notin Contexts \cup Switches

VARIABLES
  switchGen,      \* Store.SwitchGen
  active,         \* Store.ActiveCache and ActiveContextName
  caches,         \* Store.caches: contexts that have a ContextCache
  stopCh,         \* ContextCache.StopCh per context, Nil when no informer may run
  closed,         \* stop channels closed so far
  cacheCtx,       \* ContextCache.CacheCtx (with its cacheCancel) per context
  cancelled,      \* cache contexts cancelled so far
  ready,          \* caches with CacheReady
  hasData,        \* caches with HasData
  probing,        \* caches with ProbeRunning
  allowed,        \* caches whose AllowedResources a probe has set (not nil)
  informer,       \* state of the informer factory started on a stop channel
  pfClients,      \* context whose clients the port-forward manager holds
  pfStopped,      \* PortForwardManager.stopped
  hubbleClients,  \* context whose clients the Hubble manager holds
  booted,         \* main() has marked the initial cache ready
  pc, target, myGen, old, warm  \* each thread's control and locals

storeVars   == <<active, caches>>
stopVars    == <<stopCh, closed>>
ctxVars     == <<cacheCtx, cancelled>>
flagVars    == <<ready, hasData>>
probeVars   == <<probing, allowed>>
managerVars == <<pfClients, pfStopped, hubbleClients>>
localVars   == <<target, myGen, old, warm>>

vars == <<switchGen, storeVars, stopVars, ctxVars, flagVars, probeVars,
          informer, managerVars, booted, pc, localVars>>

Threads == Switches \cup {Startup}

\* A stop channel or cache context is named by what made it: the cache's
\* constructor (the context) or a switch (ResetCacheCtx, a restart).
Handles == Contexts \cup Switches

BodyStates ==
  {"load", "snapshot", "stopOld", "cancelOld", "commit", "stopForwards",
   "updateForwards", "resetHubble", "stopNew", "cancelNew", "resetCtx",
   "install"}
GoroutineStates ==
  {"probe", "probing", "doomed", "check", "sync", "restart", "recancel",
   "reinstall", "markReady"}
FinalStates == {"done", "aborted", "rejected"}

InFlight == {r \in Switches : pc[r] \in BodyStates}

Step(t, from, to) == pc[t] = from /\ pc' = [pc EXCEPT ![t] = to]

CacheOf(ch) == IF ch \in Contexts THEN ch ELSE target[ch]

Running(ch) == informer[ch] # "off" /\ ch \notin closed

-----------------------------------------------------------------------------
Init ==
  LET bootCaches == {InitialContext} \ {Nil} IN
  /\ switchGen = 0
  /\ active = InitialContext
  /\ caches = bootCaches
  /\ stopCh = [c \in Contexts |-> IF c \in bootCaches THEN c ELSE Nil]
  /\ closed = {}
  /\ cacheCtx = [c \in Contexts |-> c]
  /\ cancelled = {}
  /\ ready = {} /\ hasData = {} /\ probing = {} /\ allowed = {}
  /\ informer = [h \in Handles |-> IF h \in bootCaches THEN "running" ELSE "off"]
  /\ pfClients = InitialContext /\ hubbleClients = InitialContext
  /\ pfStopped = FALSE
  /\ booted = (InitialContext = Nil)
  /\ pc = [t \in Threads |->
             IF t = Startup /\ InitialContext # Nil THEN "probe"
             ELSE IF t = Startup THEN "done" ELSE "idle"]
  /\ target = [t \in Threads |-> IF t = Startup THEN InitialContext ELSE Nil]
  /\ myGen = [t \in Threads |-> 0]
  /\ old = [t \in Threads |-> Nil]
  /\ warm = [t \in Threads |-> FALSE]

AfterProbe(t) == IF t = Startup THEN "done" ELSE "check"

-----------------------------------------------------------------------------
(* Slips: each is an action below as a plausible mistake would have it.    *)
(* No specification uses them; they show that the properties can fail.     *)

\* A new cache is not entered in the store's map.
SlipUnregisteredCache(r) ==
  LET c == target[r] IN
  /\ c \in Loadable
  /\ Step(r, "load", "snapshot")
  /\ warm' = [warm EXCEPT ![r] = c \in caches]
  /\ stopCh' = IF c \in caches THEN stopCh ELSE [stopCh EXCEPT ![c] = c]
  /\ UNCHANGED <<switchGen, storeVars, closed, ctxVars, flagVars, probeVars,
                 informer, managerVars, booted, target, myGen, old>>

\* The old cache is stopped only once it has data.
SlipStopOnlyFilled(r) ==
  /\ Step(r, "snapshot", IF active \in {Nil, target[r]} \/ active \notin hasData
                         THEN "commit" ELSE "stopOld")
  /\ old' = [old EXCEPT ![r] = active]
  /\ UNCHANGED <<switchGen, storeVars, stopVars, ctxVars, flagVars, probeVars,
                 informer, managerVars, booted, target, myGen, warm>>

\* UpdateClients returns early when the clients do not change.
SlipUnchangedClients(r) ==
  /\ Step(r, "updateForwards", "resetHubble")
  /\ pfClients' = target[r]
  /\ pfStopped' = (pfStopped /\ pfClients = target[r])
  /\ UNCHANGED <<switchGen, storeVars, stopVars, ctxVars, flagVars, probeVars,
                 informer, hubbleClients, booted, localVars>>

\* Hubble is reset on the cold path only.
SlipColdHubbleReset(r) ==
  /\ Step(r, "resetHubble", IF warm[r] THEN "probe" ELSE "stopNew")
  /\ hubbleClients' = IF warm[r] THEN hubbleClients ELSE target[r]
  /\ UNCHANGED <<switchGen, storeVars, stopVars, ctxVars, flagVars, probeVars,
                 informer, pfClients, pfStopped, booted, localVars>>

\* The new stop channel is not stored in the cache.
SlipLostStopCh(r) ==
  /\ Step(r, "install", "probe")
  /\ UNCHANGED <<switchGen, storeVars, stopVars, ctxVars, flagVars, probeVars,
                 informer, managerVars, booted, localVars>>

\* StopInformers does not nil the channel it closes.
SlipKeepClosedCh(r, c, from, to) ==
  /\ Step(r, from, to)
  /\ closed' = closed \cup ({stopCh[c]} \ {Nil})
  /\ UNCHANGED <<switchGen, storeVars, stopCh, ctxVars, flagVars, probeVars,
                 informer, managerVars, booted, localVars>>

\* RunRBACProbe does not test ProbeRunning.
SlipUnguardedProbe(t) ==
  LET c == target[t] IN
  /\ Step(t, "probe", IF cacheCtx[c] \in cancelled THEN "doomed" ELSE "probing")
  /\ probing' = probing \cup {c}
  /\ UNCHANGED <<switchGen, storeVars, stopVars, ctxVars, flagVars, allowed,
                 informer, managerVars, booted, localVars>>

\* runContextSwitch sets both readiness flags, as main() does.
SlipMarkData(r) ==
  /\ Step(r, "markReady", "done")
  /\ ready' = ready \cup {target[r]} /\ hasData' = hasData \cup {target[r]}
  /\ UNCHANGED <<switchGen, storeVars, stopVars, ctxVars, probeVars, informer,
                 managerVars, booted, localVars>>

\* runContextSwitch marks the cache ready only once it has data.
SlipReadyNeedsData(r) ==
  /\ Step(r, "markReady", "done")
  /\ ready' = ready \cup ({target[r]} \cap hasData)
  /\ UNCHANGED <<switchGen, storeVars, stopVars, ctxVars, hasData, probeVars,
                 informer, managerVars, booted, localVars>>

-----------------------------------------------------------------------------
(* HandleSwitchContext: SwitchMu covers the generation bump only.          *)

BeginSwitch(r, c) ==
  /\ Cardinality(InFlight) < MaxInFlight
  /\ Step(r, "idle", "load")
  /\ switchGen' = switchGen + 1
  /\ myGen' = [myGen EXCEPT ![r] = switchGen + 1]
  /\ target' = [target EXCEPT ![r] = c]
  /\ UNCHANGED <<storeVars, stopVars, ctxVars, flagVars, probeVars, informer,
                 managerVars, booted, old, warm>>

RejectSwitch(r) ==
  /\ target[r] \notin Loadable
  /\ Step(r, "load", "rejected")
  /\ UNCHANGED <<switchGen, storeVars, stopVars, ctxVars, flagVars, probeVars,
                 informer, managerVars, booted, localVars>>

GetOrCreateCache(r) ==
  LET c == target[r] IN
  /\ c \in Loadable
  /\ Step(r, "load", "snapshot")
  /\ warm' = [warm EXCEPT ![r] = c \in caches]
  /\ caches' = caches \cup {c}
  /\ stopCh' = IF c \in caches THEN stopCh ELSE [stopCh EXCEPT ![c] = c]
  /\ UNCHANGED <<switchGen, active, closed, ctxVars, flagVars, probeVars,
                 informer, managerVars, booted, target, myGen, old>>

SnapshotActive(r) ==
  /\ Step(r, "snapshot",
          IF active \in {Nil, target[r]} THEN "commit" ELSE "stopOld")
  /\ old' = [old EXCEPT ![r] = active]
  /\ UNCHANGED <<switchGen, storeVars, stopVars, ctxVars, flagVars, probeVars,
                 informer, managerVars, booted, target, myGen, warm>>

Commit(r) ==
  /\ Step(r, "commit", "stopForwards")
  /\ active' = target[r]
  /\ warm' = [warm EXCEPT ![r] = warm[r] /\ target[r] \in hasData]
  /\ old' = [old EXCEPT ![r] = Nil]   \* not read again
  /\ UNCHANGED <<switchGen, caches, stopVars, ctxVars, flagVars, probeVars,
                 informer, managerVars, booted, target, myGen>>

StopForwards(r) ==
  /\ Step(r, "stopForwards", "updateForwards")
  /\ pfStopped' = TRUE
  /\ UNCHANGED <<switchGen, storeVars, stopVars, ctxVars, flagVars, probeVars,
                 informer, pfClients, hubbleClients, booted, localVars>>

UpdateForwards(r) ==
  /\ Step(r, "updateForwards", "resetHubble")
  /\ pfClients' = target[r] /\ pfStopped' = FALSE
  /\ UNCHANGED <<switchGen, storeVars, stopVars, ctxVars, flagVars, probeVars,
                 informer, hubbleClients, booted, localVars>>

ResetHubble(r) ==
  /\ Step(r, "resetHubble", IF warm[r] THEN "probe" ELSE "stopNew")
  /\ hubbleClients' = target[r]
  /\ UNCHANGED <<switchGen, storeVars, stopVars, ctxVars, flagVars, probeVars,
                 informer, pfClients, pfStopped, booted, localVars>>

ResetCacheCtx(r) ==
  /\ Step(r, "resetCtx", "install")
  /\ cacheCtx' = [cacheCtx EXCEPT ![target[r]] = r]
  /\ UNCHANGED <<switchGen, storeVars, stopVars, cancelled, flagVars,
                 probeVars, informer, managerVars, booted, localVars>>

InstallStopCh(r) ==
  /\ Step(r, "install", "probe")
  /\ stopCh' = [stopCh EXCEPT ![target[r]] = r]
  /\ UNCHANGED <<switchGen, storeVars, closed, ctxVars, flagVars, probeVars,
                 informer, managerVars, booted, localVars>>

-----------------------------------------------------------------------------
(* StopInformers: the channel is closed under the cache lock, the context  *)
(* is cancelled after the lock is released.  Three callers.                *)

CloseStopCh(r, c, from, to) ==
  /\ Step(r, from, to)
  /\ closed' = closed \cup ({stopCh[c]} \ {Nil})
  /\ stopCh' = [stopCh EXCEPT ![c] = Nil]
  /\ UNCHANGED <<switchGen, storeVars, ctxVars, flagVars, probeVars, informer,
                 managerVars, booted, localVars>>

CancelCacheCtx(r, c, from, to) ==
  /\ Step(r, from, to)
  /\ cancelled' = cancelled \cup {cacheCtx[c]}
  /\ UNCHANGED <<switchGen, storeVars, stopVars, cacheCtx, flagVars, probeVars,
                 informer, managerVars, booted, localVars>>

StopInformers(r) ==
  \/ CloseStopCh(r, old[r], "stopOld", "cancelOld")
  \/ CancelCacheCtx(r, old[r], "cancelOld", "commit")
  \/ CloseStopCh(r, target[r], "stopNew", "cancelNew")
  \/ CancelCacheCtx(r, target[r], "cancelNew", "resetCtx")
  \/ CloseStopCh(r, target[r], "restart", "recancel")
  \/ CancelCacheCtx(r, target[r], "recancel", "reinstall")

-----------------------------------------------------------------------------
(* RunRBACProbe, run by every goroutine and by start-up.                   *)

\* A probe whose parent is already cancelled is doomed: every call fails.
StartProbe(t) ==
  LET c == target[t] IN
  /\ IF c \in probing
     THEN Step(t, "probe", AfterProbe(t)) /\ UNCHANGED probing
     ELSE /\ Step(t, "probe", IF cacheCtx[c] \in cancelled THEN "doomed"
                                                          ELSE "probing")
          /\ probing' = probing \cup {c}
  /\ UNCHANGED <<switchGen, storeVars, stopVars, ctxVars, flagVars, allowed,
                 informer, managerVars, booted, localVars>>

\* CheckVerbAccess fails only if every call failed; a probe cut short by
\* cancellation or by errors stores what it has, gaps counting as allowed.
ProbeSucceeds(t) ==
  /\ Step(t, "probing", AfterProbe(t))
  /\ probing' = probing \ {target[t]}
  /\ allowed' = allowed \cup {target[t]}
  /\ UNCHANGED <<switchGen, storeVars, stopVars, ctxVars, flagVars, informer,
                 managerVars, booted, localVars>>

ProbeFails(t) ==
  /\ \E from \in {"probing", "doomed"} : Step(t, from, AfterProbe(t))
  /\ probing' = probing \ {target[t]}
  /\ UNCHANGED <<switchGen, storeVars, stopVars, ctxVars, flagVars, allowed,
                 informer, managerVars, booted, localVars>>

-----------------------------------------------------------------------------
(* runContextSwitch after the probe.                                       *)

Superseded(r) == switchGen # myGen[r]

CheckSuperseded(r) ==
  /\ Step(r, "check", IF Superseded(r) THEN "aborted"
                      ELSE IF warm[r] THEN "restart" ELSE "sync")
  /\ UNCHANGED <<switchGen, storeVars, stopVars, ctxVars, flagVars, probeVars,
                 informer, managerVars, booted, localVars>>

\* SyncInformers starts a factory on the channel the handler made; it
\* returns once synced, after 60 s, or when the channel closes.
SyncInformers(r) ==
  /\ Step(r, "sync", "markReady")
  /\ informer' = [informer EXCEPT ![r] = "running"]
  /\ UNCHANGED <<switchGen, storeVars, stopVars, ctxVars, flagVars, probeVars,
                 managerVars, booted, localVars>>

\* RestartInformers, after its StopInformers.
RestartInformers(r) ==
  /\ Step(r, "reinstall", "markReady")
  /\ stopCh' = [stopCh EXCEPT ![target[r]] = r]
  /\ ready' = ready \ {target[r]}
  /\ informer' = [informer EXCEPT ![r] = "running"]
  /\ UNCHANGED <<switchGen, storeVars, closed, ctxVars, hasData, probeVars,
                 managerVars, booted, localVars>>

MarkReady(r) ==
  /\ Step(r, "markReady", "done")
  /\ ready' = ready \cup {target[r]}
  /\ UNCHANGED <<switchGen, storeVars, stopVars, ctxVars, hasData, probeVars,
                 informer, managerVars, booted, localVars>>

-----------------------------------------------------------------------------
(* The goroutine that waits for a factory's caches: it tests the stop      *)
(* channel, then takes the cache lock and records the sync.                *)

InformersSynced(ch) ==
  /\ informer[ch] = "running" /\ ch \notin closed
  /\ informer' = [informer EXCEPT ![ch] = "checked"]
  /\ UNCHANGED <<switchGen, storeVars, stopVars, ctxVars, flagVars, probeVars,
                 managerVars, booted, pc, localVars>>

RecordSync(ch) ==
  LET c == CacheOf(ch) IN
  /\ informer[ch] = "checked"
  /\ informer' = [informer EXCEPT ![ch] = "synced"]
  /\ hasData' = hasData \cup {c}
  /\ ready' = IF ch \in Switches /\ warm[ch] THEN ready \cup {c} ELSE ready
  /\ UNCHANGED <<switchGen, storeVars, stopVars, ctxVars, probeVars,
                 managerVars, booted, pc, localVars>>

\* main() after InitInformers, which returns on sync, stop or after 60 s.
MainReady ==
  /\ ~booted
  /\ booted' = TRUE
  /\ ready' = ready \cup {InitialContext}
  /\ hasData' = hasData \cup {InitialContext}
  /\ UNCHANGED <<switchGen, storeVars, stopVars, ctxVars, probeVars, informer,
                 managerVars, pc, localVars>>

-----------------------------------------------------------------------------
Body(r) ==
  \/ RejectSwitch(r) \/ GetOrCreateCache(r) \/ SnapshotActive(r) \/ Commit(r)
  \/ StopForwards(r) \/ UpdateForwards(r) \/ ResetHubble(r)
  \/ ResetCacheCtx(r) \/ InstallStopCh(r) \/ StopInformers(r)

Probe(t) == StartProbe(t) \/ ProbeSucceeds(t) \/ ProbeFails(t)

Goroutine(r) ==
  CheckSuperseded(r) \/ SyncInformers(r) \/ RestartInformers(r) \/ MarkReady(r)

Next ==
  \/ \E r \in Switches : \/ \E c \in Contexts : BeginSwitch(r, c)
                         \/ Body(r) \/ Goroutine(r)
  \/ \E t \in Threads : Probe(t)
  \/ \E ch \in Handles : InformersSynced(ch) \/ RecordSync(ch)
  \/ MainReady

Spec == Init /\ [][Next]_vars

\* The Go scheduler runs every goroutine that can run, a probe ends within
\* its 45 s deadline and main() within 60 s.  Nothing forces a user to
\* switch, or a cluster to answer the informers.
Fairness ==
  /\ \A r \in Switches : WF_vars(Body(r) \/ Goroutine(r))
  /\ \A t \in Threads : WF_vars(Probe(t))
  /\ WF_vars(MainReady)

FairSpec == Spec /\ Fairness

-----------------------------------------------------------------------------
TypeOK ==
  /\ switchGen \in Nat
  /\ active \in caches \cup {Nil}
  /\ caches \subseteq Contexts
  /\ stopCh \in [Contexts -> Handles \cup {Nil}]
  /\ closed \subseteq Handles
  /\ cacheCtx \in [Contexts -> Handles]
  /\ cancelled \subseteq Handles
  /\ ready \subseteq caches /\ hasData \subseteq caches
  /\ probing \subseteq caches /\ allowed \subseteq caches
  /\ informer \in [Handles -> {"off", "running", "checked", "synced"}]
  /\ pfClients \in caches \cup {Nil} /\ hubbleClients \in caches \cup {Nil}
  /\ pfStopped \in BOOLEAN /\ booted \in BOOLEAN
  /\ pc \in [Threads -> BodyStates \cup GoroutineStates \cup FinalStates \cup {"idle"}]
  /\ target \in [Threads -> Contexts \cup {Nil}]
  /\ myGen \in [Threads -> Nat]
  /\ old \in [Threads -> caches \cup {Nil}]
  /\ warm \in [Threads -> BOOLEAN]

-----------------------------------------------------------------------------
(* Properties.                                                             *)

Quiet == InFlight = {}
Settled == booted /\ \A t \in Threads : pc[t] \in FinalStates \cup {"idle"}
Latest(r) == myGen[r] = switchGen

\* No cache still holds a channel that is already closed: StopInformers,
\* called by three code paths of concurrent switches, never closes a channel
\* twice, which would panic the sidecar.
StopChOpen == \A c \in Contexts : stopCh[c] \notin closed

\* ProbeRunning is exactly "one goroutine is probing this cache": two bursts
\* of access reviews never run at once, and no exit path of RunRBACProbe
\* leaves the flag behind, which would disable the probe for good.
ProbeFlagExact ==
  \A c \in Contexts :
    LET probers == {t \in Threads : pc[t] \in {"probing", "doomed"} /\ target[t] = c}
    IN IF c \in probing THEN \E t \in probers : probers = {t} ELSE probers = {}

\* When no handler body is running, the port-forward manager and the Hubble
\* manager talk to the cluster the store serves.
ManagersFollowActive ==
  Quiet => pfClients = active /\ hubbleClients = active

\* StopAll's gate is reopened: no order of overlapping switches leaves the
\* port-forward manager refusing forwards.
ForwardsAccepted == Quiet => ~pfStopped

\* When no handler body is running, informers of a cache that is not active
\* can only come from RestartInformers, whose goroutine tests the generation
\* and opens a new channel later; start-up and cold starts never leak.
OnlyRestartsLeak ==
  \A ch \in Handles :
    Quiet /\ Running(ch) /\ CacheOf(ch) # active => ch \in Switches /\ warm[ch]

\* Once everything has settled, the cache of the latest switch is ready,
\* whatever older switches to the same context did in between.
LatestSwitchReady ==
  Settled =>
    \A r \in Switches :
      pc[r] # "idle" /\ Latest(r) /\ active = target[r] => active \in ready

\* The served context ends up ready and watched by informers it can stop.
ActiveServed ==
  <>[](/\ active \in ready
       /\ \E ch \in Handles : stopCh[active] = ch /\ Running(ch))

\* Except for the initial cache, whose flags main() sets by time-out, a cache
\* has HasData (and so skips the direct-API fallback and takes the warm path)
\* only if informers started on it have synced.
DataMeansSynced ==
  \A c \in hasData \ {InitialContext} :
    \E ch \in Handles : CacheOf(ch) = c /\ informer[ch] = "synced"

\* store.go, ResetCacheCtx: "Must be called before starting new informers or
\* RBAC probes on a reused cache."  The goroutine of a switch that is not
\* superseded never starts its probe under a cancelled cache context.
ProbeHasLiveParent ==
  [][\A r \in Switches : Latest(r) /\ pc[r] = "probe" => pc'[r] # "doomed"]_vars

\* Requests are interchangeable; used by the runs that check no liveness.
SwitchSymmetry == Permutations(Switches)

=============================================================================
