------------------------ MODULE ContextSwitchProofs ------------------------
(***************************************************************************)
(* Theorems about ContextSwitch, for any contexts, any number of switch    *)
(* requests and any number of handler bodies running at the same time.     *)
(***************************************************************************)
EXTENDS ContextSwitch, FiniteSetTheorems, TLAPS

\* A thread past its first step works on a cache that exists.
Begun(t) == pc[t] \notin {"idle", "load", "rejected"}

Homed ==
  /\ \A r \in Switches : /\ pc[r] # "idle" => target[r] \in Contexts
                         /\ Begun(r) => target[r] \in caches
                         /\ ~Begun(r) => informer[r] = "off"
                         /\ pc[r] \in {"stopOld", "cancelOld"} => old[r] \in caches
  /\ \A c \in Contexts : informer[c] # "off" => c \in caches

\* So does start-up, which runs the probe and marks the initial cache.
StartupHomed ==
  /\ target[Startup] = InitialContext
  /\ pc[Startup] \in {"probe", "probing", "doomed", "done"}
  /\ pc[Startup] # "done" => InitialContext \in caches
  /\ ~booted => InitialContext \in caches

TypeInv == TypeOK /\ Homed /\ StartupHomed

USE DEF Threads, Handles

LEMMA TypeInit == Init => TypeInv
<1> SUFFICES ASSUME Init
             PROVE  TypeInv
  OBVIOUS
<1> USE ConstantsAssumption DEF Init
<1>1. TypeOK
  BY DEF TypeOK, BodyStates, GoroutineStates, FinalStates
<1>2. Homed
  BY DEF Homed, Begun
<1>3. StartupHomed
  BY DEF StartupHomed
<1> QED
  BY <1>1, <1>2, <1>3 DEF TypeInv

LEMMA TypeStep == TypeInv /\ [Next]_vars => TypeInv'
<1> SUFFICES ASSUME TypeInv, [Next]_vars
             PROVE  TypeInv'
  OBVIOUS
<1> USE ConstantsAssumption DEF TypeInv, TypeOK, Homed, Begun, StartupHomed, Step,
        BodyStates, GoroutineStates, FinalStates, storeVars, stopVars, ctxVars,
        flagVars, probeVars, managerVars, localVars
<1>1. ASSUME NEW r \in Switches, NEW c \in Contexts, BeginSwitch(r, c)
      PROVE  TypeInv'
  BY <1>1 DEF BeginSwitch
<1>2. ASSUME NEW r \in Switches, RejectSwitch(r)
      PROVE  TypeInv'
  BY <1>2 DEF RejectSwitch
<1>3. ASSUME NEW r \in Switches, GetOrCreateCache(r)
      PROVE  TypeInv'
  BY <1>3 DEF GetOrCreateCache
<1>4. ASSUME NEW r \in Switches, SnapshotActive(r)
      PROVE  TypeInv'
  BY <1>4 DEF SnapshotActive
<1>5. ASSUME NEW r \in Switches, Commit(r)
      PROVE  TypeInv'
  BY <1>5 DEF Commit
<1>6. ASSUME NEW r \in Switches, StopForwards(r)
      PROVE  TypeInv'
  BY <1>6 DEF StopForwards
<1>7. ASSUME NEW r \in Switches, UpdateForwards(r)
      PROVE  TypeInv'
  BY <1>7 DEF UpdateForwards
<1>8. ASSUME NEW r \in Switches, ResetHubble(r)
      PROVE  TypeInv'
  BY <1>8 DEF ResetHubble
<1>9. ASSUME NEW r \in Switches, ResetCacheCtx(r)
      PROVE  TypeInv'
  BY <1>9 DEF ResetCacheCtx
<1>10. ASSUME NEW r \in Switches, InstallStopCh(r)
      PROVE  TypeInv'
  BY <1>10 DEF InstallStopCh
<1>11. ASSUME NEW r \in Switches, CheckSuperseded(r)
      PROVE  TypeInv'
  BY <1>11 DEF CheckSuperseded, Superseded
<1>12. ASSUME NEW r \in Switches, SyncInformers(r)
      PROVE  TypeInv'
  BY <1>12 DEF SyncInformers
<1>13. ASSUME NEW r \in Switches, RestartInformers(r)
      PROVE  TypeInv'
  BY <1>13 DEF RestartInformers
<1>14. ASSUME NEW r \in Switches, MarkReady(r)
      PROVE  TypeInv'
  BY <1>14 DEF MarkReady
<1>15. ASSUME NEW r \in Switches, StopInformers(r)
      PROVE  TypeInv'
  <2>1. CASE CloseStopCh(r, old[r], "stopOld", "cancelOld")
    BY <2>1 DEF CloseStopCh
  <2>2. CASE CancelCacheCtx(r, old[r], "cancelOld", "commit")
    BY <2>2 DEF CancelCacheCtx
  <2>3. CASE CloseStopCh(r, target[r], "stopNew", "cancelNew")
    BY <2>3 DEF CloseStopCh
  <2>4. CASE CancelCacheCtx(r, target[r], "cancelNew", "resetCtx")
    BY <2>4 DEF CancelCacheCtx
  <2>5. CASE CloseStopCh(r, target[r], "restart", "recancel")
    BY <2>5 DEF CloseStopCh
  <2>6. CASE CancelCacheCtx(r, target[r], "recancel", "reinstall")
    BY <2>6 DEF CancelCacheCtx
  <2> QED
    BY <1>15, <2>1, <2>2, <2>3, <2>4, <2>5, <2>6 DEF StopInformers
<1>16. ASSUME NEW t \in Threads, StartProbe(t)
      PROVE  TypeInv'
  BY <1>16 DEF StartProbe, AfterProbe
<1>17. ASSUME NEW t \in Threads, ProbeSucceeds(t)
      PROVE  TypeInv'
  BY <1>17 DEF ProbeSucceeds, AfterProbe
<1>18. ASSUME NEW t \in Threads, ProbeFails(t)
      PROVE  TypeInv'
  BY <1>18 DEF ProbeFails, AfterProbe
<1>19. ASSUME NEW ch \in Handles, InformersSynced(ch)
      PROVE  TypeInv'
  BY <1>19 DEF InformersSynced, CacheOf
<1>20. ASSUME NEW ch \in Handles, RecordSync(ch)
      PROVE  TypeInv'
  BY <1>20 DEF RecordSync, CacheOf
<1>21. CASE MainReady
  BY <1>21 DEF MainReady
<1>22. CASE UNCHANGED vars
  BY <1>22 DEF vars
<1> QED
  BY <1>1, <1>2, <1>3, <1>4, <1>5, <1>6, <1>7, <1>8, <1>9, <1>10, <1>11, <1>12,
     <1>13, <1>14, <1>15, <1>16, <1>17, <1>18, <1>19, <1>20, <1>21, <1>22
     DEF Next, Body, Probe, Goroutine

\* Every reachable state has values of the declared types: the served context,
\* the managers' clients and every flag belong to a cache the store holds.
THEOREM TypeCorrect == Spec => []TypeOK
<1>1. TypeInv => TypeOK
  BY DEF TypeInv
<1> QED
  BY TypeInit, TypeStep, <1>1, PTL DEF Spec

-----------------------------------------------------------------------------
(* No stop channel is closed twice.                                        *)

\* A switch that has not yet installed the one channel it makes: a cold one
\* installs it in its body, a warm one when it restarts the informers.
Unmade(r) ==
  \/ pc[r] \in BodyStates \cup {"idle", "rejected", "restart", "recancel", "reinstall"}
  \/ pc[r] \in {"probe", "probing", "doomed", "check"} /\ warm[r]

\* A cache holds its own channel only: the one it was created with or one a
\* switch to it made.  So no two caches hold the same channel.
Channels ==
  /\ \A c \in Contexts : stopCh[c] # Nil =>
       /\ CacheOf(stopCh[c]) = c
       /\ stopCh[c] \notin closed
  /\ \A c \in Contexts \ caches : stopCh[c] = Nil /\ c \notin closed
  /\ \A r \in Switches : Unmade(r) => r \notin closed /\ \A c \in Contexts : stopCh[c] # r
  /\ \A r \in Switches : pc[r] \in {"stopNew", "cancelNew", "resetCtx", "install"} => ~warm[r]

LEMMA ChannelInit == Init => Channels
BY ConstantsAssumption DEF Init, Channels, Unmade, CacheOf, BodyStates

LEMMA ChannelStep == TypeInv /\ Channels /\ TypeInv' /\ [Next]_vars => Channels'
<1> SUFFICES ASSUME TypeInv, Channels, TypeInv', [Next]_vars
             PROVE  Channels'
  OBVIOUS
<1> USE ConstantsAssumption DEF TypeInv, TypeOK, Homed, Begun, StartupHomed, Channels,
        Unmade, CacheOf, Step, BodyStates, GoroutineStates, FinalStates, storeVars,
        stopVars, ctxVars, flagVars, probeVars, managerVars, localVars
<1>1. ASSUME NEW r \in Switches, NEW c \in Contexts, BeginSwitch(r, c)
      PROVE  Channels'
  BY <1>1 DEF BeginSwitch
<1>2. ASSUME NEW r \in Switches,
             RejectSwitch(r) \/ SnapshotActive(r) \/ StopForwards(r) \/ UpdateForwards(r)
      PROVE  Channels'
  BY <1>2 DEF RejectSwitch, SnapshotActive, StopForwards, UpdateForwards
<1>3. ASSUME NEW r \in Switches, ResetHubble(r) \/ ResetCacheCtx(r)
      PROVE  Channels'
  BY <1>3 DEF ResetHubble, ResetCacheCtx
<1>4. ASSUME NEW r \in Switches, GetOrCreateCache(r)
      PROVE  Channels'
  BY <1>4 DEF GetOrCreateCache
<1>5. ASSUME NEW r \in Switches, Commit(r)
      PROVE  Channels'
  BY <1>5 DEF Commit
<1>6. ASSUME NEW r \in Switches, InstallStopCh(r)
      PROVE  Channels'
  BY <1>6 DEF InstallStopCh
<1>7. ASSUME NEW r \in Switches, CheckSuperseded(r)
      PROVE  Channels'
  BY <1>7 DEF CheckSuperseded, Superseded
<1>8. ASSUME NEW r \in Switches, SyncInformers(r) \/ MarkReady(r)
      PROVE  Channels'
  BY <1>8 DEF SyncInformers, MarkReady
<1>9. ASSUME NEW r \in Switches, RestartInformers(r)
      PROVE  Channels'
  BY <1>9 DEF RestartInformers
<1>10. ASSUME NEW r \in Switches, StopInformers(r)
      PROVE  Channels'
  <2>1. CASE CloseStopCh(r, old[r], "stopOld", "cancelOld")
    BY <2>1 DEF CloseStopCh
  <2>2. CASE CancelCacheCtx(r, old[r], "cancelOld", "commit")
    BY <2>2 DEF CancelCacheCtx
  <2>3. CASE CloseStopCh(r, target[r], "stopNew", "cancelNew")
    BY <2>3 DEF CloseStopCh
  <2>4. CASE CancelCacheCtx(r, target[r], "cancelNew", "resetCtx")
    BY <2>4 DEF CancelCacheCtx
  <2>5. CASE CloseStopCh(r, target[r], "restart", "recancel")
    BY <2>5 DEF CloseStopCh
  <2>6. CASE CancelCacheCtx(r, target[r], "recancel", "reinstall")
    BY <2>6 DEF CancelCacheCtx
  <2> QED
    BY <1>10, <2>1, <2>2, <2>3, <2>4, <2>5, <2>6 DEF StopInformers
<1>11. ASSUME NEW t \in Threads, Probe(t)
      PROVE  Channels'
  BY <1>11 DEF Probe, StartProbe, ProbeSucceeds, ProbeFails, AfterProbe
<1>12. ASSUME NEW ch \in Handles, InformersSynced(ch) \/ RecordSync(ch)
      PROVE  Channels'
  BY <1>12 DEF InformersSynced, RecordSync
<1>13. CASE MainReady \/ UNCHANGED vars
  BY <1>13 DEF MainReady, vars
<1> QED
  BY <1>1, <1>2, <1>3, <1>4, <1>5, <1>6, <1>7, <1>8, <1>9, <1>10, <1>11, <1>12,
     <1>13 DEF Next, Body, Goroutine

\* StopInformers never closes a channel twice, whatever the number and the
\* order of the switches that call it for the old and the new cache.
THEOREM ChannelsCloseOnce == Spec => []StopChOpen
<1>1. TypeInv /\ Channels => StopChOpen
  BY ConstantsAssumption DEF TypeInv, TypeOK, Channels, StopChOpen
<1> QED
  BY TypeInit, TypeStep, ChannelInit, ChannelStep, <1>1, PTL DEF Spec

-----------------------------------------------------------------------------
(* One probe per cache.                                                    *)

Probing(t) == pc[t] \in {"probing", "doomed"}

Probes ==
  /\ \A t \in Threads : Probing(t) => target[t] \in probing
  /\ \A t, u \in Threads : Probing(t) /\ Probing(u) /\ target[t] = target[u] => t = u
  /\ \A c \in probing : \E t \in Threads : Probing(t) /\ target[t] = c

LEMMA ProbesInit == Init => Probes
BY ConstantsAssumption DEF Init, Probes, Probing

LEMMA ProbesStep == TypeInv /\ Probes /\ TypeInv' /\ [Next]_vars => Probes'
<1> SUFFICES ASSUME TypeInv, Probes, TypeInv', [Next]_vars
             PROVE  Probes'
  OBVIOUS
<1> USE ConstantsAssumption DEF TypeInv, TypeOK, Homed, Begun, StartupHomed, Probes,
        Probing, Step, BodyStates, GoroutineStates, FinalStates, storeVars,
        stopVars, ctxVars, flagVars, probeVars, managerVars, localVars
<1>1. ASSUME NEW r \in Switches, NEW c \in Contexts, BeginSwitch(r, c)
      PROVE  Probes'
  BY <1>1 DEF BeginSwitch
<1>2. ASSUME NEW r \in Switches, Body(r) \/ Goroutine(r)
      PROVE  Probes'
  <2>1. /\ pc[r] \notin {"idle", "probing", "doomed"} /\ UNCHANGED <<target, probing>>
        /\ \E to : to \notin {"probing", "doomed"} /\ pc' = [pc EXCEPT ![r] = to]
    <3>1. CASE RejectSwitch(r) \/ GetOrCreateCache(r) \/ SnapshotActive(r) \/ Commit(r)
               \/ StopForwards(r)
      BY <3>1 DEF RejectSwitch, GetOrCreateCache, SnapshotActive, Commit, StopForwards
    <3>2. CASE UpdateForwards(r) \/ ResetHubble(r) \/ ResetCacheCtx(r) \/ InstallStopCh(r)
      BY <3>2 DEF UpdateForwards, ResetHubble, ResetCacheCtx, InstallStopCh
    <3>3. CASE StopInformers(r)
      BY <3>3 DEF StopInformers, CloseStopCh, CancelCacheCtx
    <3>4. CASE Goroutine(r)
      BY <3>4 DEF Goroutine, CheckSuperseded, SyncInformers, RestartInformers, MarkReady
    <3> QED
      BY <1>2, <3>1, <3>2, <3>3, <3>4 DEF Body
  <2> QED
    BY <2>1
<1>3. ASSUME NEW t \in Threads, StartProbe(t)
      PROVE  Probes'
  BY <1>3 DEF StartProbe, AfterProbe
<1>4. ASSUME NEW t \in Threads, ProbeSucceeds(t) \/ ProbeFails(t)
      PROVE  Probes'
  <2>1. /\ Probing(t) /\ probing' = probing \ {target[t]} /\ UNCHANGED target
        /\ \E to : to \notin {"probing", "doomed"} /\ pc' = [pc EXCEPT ![t] = to]
    BY <1>4 DEF ProbeSucceeds, ProbeFails, AfterProbe
  <2> QED
    BY <2>1
<1>5. ASSUME NEW ch \in Handles, InformersSynced(ch) \/ RecordSync(ch)
      PROVE  Probes'
  BY <1>5 DEF InformersSynced, RecordSync
<1>6. CASE MainReady \/ UNCHANGED vars
  BY <1>6 DEF MainReady, vars
<1> QED
  BY <1>1, <1>2, <1>3, <1>4, <1>5, <1>6 DEF Next, Probe

\* RunRBACProbe's flag is exact: a cache is never probed twice at a time, by
\* any switches or start-up, and no path of a probe leaves the flag behind.
THEOREM ProbesAlone == Spec => []ProbeFlagExact
<1>1. ASSUME Probes
      PROVE  ProbeFlagExact
  <2> SUFFICES ASSUME NEW c \in Contexts
               PROVE  LET probers == {t \in Threads : Probing(t) /\ target[t] = c}
                      IN IF c \in probing THEN \E t \in probers : probers = {t}
                                          ELSE probers = {}
    BY DEF ProbeFlagExact, Probing
  <2> DEFINE probers == {t \in Threads : Probing(t) /\ target[t] = c}
  <2>1. CASE c \in probing
    <3>1. PICK t \in Threads : Probing(t) /\ target[t] = c
      BY <1>1, <2>1 DEF Probes
    <3>2. probers = {t}
      BY <1>1, <3>1 DEF Probes
    <3> QED
      BY <2>1, <3>1, <3>2
  <2>2. CASE c \notin probing
    BY <1>1, <2>2 DEF Probes
  <2> QED
    BY <2>1, <2>2
<1> QED
  BY TypeInit, TypeStep, ProbesInit, ProbesStep, <1>1, PTL DEF Spec

-----------------------------------------------------------------------------
(* The port-forward manager is open again after every switch.              *)

\* Between StopAll and UpdateClients of one body the gate may be shut.
GateHeld == pfStopped => \E r \in Switches : pc[r] = "updateForwards"

LEMMA GateStep == TypeInv /\ GateHeld /\ TypeInv' /\ [Next]_vars => GateHeld'
<1> SUFFICES ASSUME TypeInv, GateHeld, TypeInv', [Next]_vars
             PROVE  GateHeld'
  OBVIOUS
<1> USE ConstantsAssumption DEF TypeInv, TypeOK, StartupHomed, GateHeld, Step,
        managerVars
<1>1. ASSUME NEW r \in Switches, StopForwards(r)
      PROVE  GateHeld'
  BY <1>1 DEF StopForwards
<1>2. ASSUME NEW r \in Switches, UpdateForwards(r)
      PROVE  GateHeld'
  BY <1>2 DEF UpdateForwards
<1> DEFINE Held == /\ UNCHANGED pfStopped
                 /\ \A r \in Switches : pc[r] = "updateForwards" => pc'[r] = pc[r]
<1>3. ASSUME NEW r \in Switches, NEW c \in Contexts, BeginSwitch(r, c)
      PROVE  Held
  BY <1>3 DEF BeginSwitch
<1>4. ASSUME NEW r \in Switches,
             \/ RejectSwitch(r) \/ GetOrCreateCache(r) \/ SnapshotActive(r) \/ Commit(r)
             \/ ResetHubble(r) \/ ResetCacheCtx(r) \/ InstallStopCh(r)
      PROVE  Held
  BY <1>4 DEF RejectSwitch, GetOrCreateCache, SnapshotActive, Commit, ResetHubble,
              ResetCacheCtx, InstallStopCh
<1>5. ASSUME NEW r \in Switches, StopInformers(r)
      PROVE  Held
  BY <1>5 DEF StopInformers, CloseStopCh, CancelCacheCtx
<1>6. ASSUME NEW r \in Switches, Goroutine(r)
      PROVE  Held
  BY <1>6 DEF Goroutine, CheckSuperseded, SyncInformers, RestartInformers, MarkReady
<1>7. ASSUME NEW t \in Threads, Probe(t)
      PROVE  Held
  BY <1>7 DEF Probe, StartProbe, ProbeSucceeds, ProbeFails
<1>8. ASSUME NEW ch \in Handles, InformersSynced(ch) \/ RecordSync(ch)
      PROVE  Held
  BY <1>8 DEF InformersSynced, RecordSync
<1>9. CASE MainReady \/ UNCHANGED vars
  BY <1>9 DEF MainReady, vars
<1>10. ASSUME Held
       PROVE  GateHeld'
  <2> HIDE DEF TypeInv, TypeOK
  <2> QED
    BY <1>10
<1> QED
  <2> HIDE DEF Held, GateHeld
  <2> QED
    BY <1>1, <1>2, <1>3, <1>4, <1>5, <1>6, <1>7, <1>8, <1>9, <1>10
       DEF Next, Body

\* No order of overlapping switches leaves StopAll's gate shut.
THEOREM GateReopens == Spec => []ForwardsAccepted
<1>1. Init => GateHeld
  BY DEF Init, GateHeld
<1>2. TypeInv /\ GateHeld => ForwardsAccepted
  BY DEF GateHeld, ForwardsAccepted, Quiet, InFlight, BodyStates
<1> QED
  BY TypeInit, TypeStep, GateStep, <1>1, <1>2, PTL DEF Spec

-----------------------------------------------------------------------------
(* Requests that do not overlap keep the managers on the served cluster.   *)

AtMostOneBody == \A r, s \in InFlight : r = s

BeforeCommit == {"load", "snapshot", "stopOld", "cancelOld", "commit"}
AfterReset   == {"stopNew", "cancelNew", "resetCtx", "install"}

\* How far the one body has taken the store and the managers.
Managers ==
  /\ AtMostOneBody
  /\ ManagersFollowActive
  /\ \A r \in Switches :
       /\ pc[r] \in BeforeCommit \cup AfterReset => pfClients = active /\ hubbleClients = active
       /\ pc[r] \in {"stopForwards", "updateForwards"} => active = target[r]
       /\ pc[r] = "resetHubble" => active = target[r] /\ pfClients = active

LEMMA ManagersInit == Init => Managers
BY ConstantsAssumption
   DEF Init, Managers, AtMostOneBody, ManagersFollowActive, Quiet, InFlight, BodyStates,
       BeforeCommit, AfterReset

LEMMA ManagersStep ==
  ASSUME IsFiniteSet(Switches), MaxInFlight = 1
  PROVE  TypeInv /\ Managers /\ TypeInv' /\ [Next]_vars => Managers'
<1> SUFFICES ASSUME TypeInv, Managers, TypeInv', [Next]_vars
             PROVE  Managers'
  OBVIOUS
<1> USE ConstantsAssumption DEF TypeInv, TypeOK, Homed, StartupHomed, Managers,
        AtMostOneBody, ManagersFollowActive, Quiet, InFlight, Step, BodyStates,
        BeforeCommit, AfterReset, GoroutineStates, FinalStates, storeVars, stopVars,
        ctxVars, flagVars, probeVars, managerVars, localVars
<1>1. ASSUME NEW r \in Switches, NEW c \in Contexts, BeginSwitch(r, c)
      PROVE  Managers'
  <2>1. InFlight = {}
    <3> HIDE DEF InFlight
    <3>1. InFlight \subseteq Switches
      BY DEF InFlight
    <3>2. IsFiniteSet(InFlight)
      BY <3>1, FS_Subset
    <3>3. Cardinality(InFlight) = 0
      BY <1>1, <3>2, FS_CardinalityType DEF BeginSwitch
    <3> QED
      BY <3>2, <3>3, FS_EmptySet
  <2>2. pfClients = active /\ hubbleClients = active
    BY <2>1
  <2> QED
    BY <1>1, <2>1, <2>2 DEF BeginSwitch
<1>2. ASSUME NEW r \in Switches, RejectSwitch(r)
      PROVE  Managers'
  BY <1>2 DEF RejectSwitch
<1>3. ASSUME NEW r \in Switches, GetOrCreateCache(r)
      PROVE  Managers'
  BY <1>3 DEF GetOrCreateCache
<1>4. ASSUME NEW r \in Switches, SnapshotActive(r)
      PROVE  Managers'
  BY <1>4 DEF SnapshotActive
<1>5. ASSUME NEW r \in Switches, Commit(r)
      PROVE  Managers'
  BY <1>5 DEF Commit
<1>6. ASSUME NEW r \in Switches, StopForwards(r)
      PROVE  Managers'
  BY <1>6 DEF StopForwards
<1>7. ASSUME NEW r \in Switches, UpdateForwards(r)
      PROVE  Managers'
  BY <1>7 DEF UpdateForwards
<1>8. ASSUME NEW r \in Switches, ResetHubble(r)
      PROVE  Managers'
  BY <1>8 DEF ResetHubble
<1>9. ASSUME NEW r \in Switches, ResetCacheCtx(r)
      PROVE  Managers'
  BY <1>9 DEF ResetCacheCtx
<1>10. ASSUME NEW r \in Switches, InstallStopCh(r)
      PROVE  Managers'
  BY <1>10 DEF InstallStopCh
<1>11. ASSUME NEW r \in Switches, StopInformers(r)
      PROVE  Managers'
  BY <1>11 DEF StopInformers, CloseStopCh, CancelCacheCtx
<1>12. ASSUME NEW r \in Switches, Goroutine(r)
      PROVE  Managers'
  BY <1>12 DEF Goroutine, CheckSuperseded, SyncInformers, RestartInformers, MarkReady
<1>13. ASSUME NEW t \in Threads, Probe(t)
      PROVE  Managers'
  BY <1>13 DEF Probe, StartProbe, ProbeSucceeds, ProbeFails, AfterProbe
<1>14. ASSUME NEW ch \in Handles, InformersSynced(ch) \/ RecordSync(ch)
      PROVE  Managers'
  BY <1>14 DEF InformersSynced, RecordSync
<1>15. CASE MainReady \/ UNCHANGED vars
  BY <1>15 DEF MainReady, vars
<1> QED
  BY <1>1, <1>2, <1>3, <1>4, <1>5, <1>6, <1>7, <1>8, <1>9, <1>10, <1>11, <1>12,
     <1>13, <1>14, <1>15 DEF Next, Body

\* As long as no two requests run their bodies at the same time, both managers
\* talk to the served cluster whenever no body is running, whatever the
\* goroutines of earlier requests still do.
THEOREM SerialManagersFollow ==
  ASSUME IsFiniteSet(Switches), MaxInFlight = 1
  PROVE  Spec => []ManagersFollowActive
<1>1. Managers => ManagersFollowActive
  BY DEF Managers
<1>2. TypeInv /\ Managers /\ TypeInv' /\ [Next]_vars => Managers'
  BY ManagersStep
<1> QED
  BY TypeInit, TypeStep, ManagersInit, <1>1, <1>2, PTL DEF Spec

-----------------------------------------------------------------------------
(* A cache claims data only if informers started on it have synced.        *)

\* A switch starts informers at most once, so a sync is never taken back.
Unstarted(r) ==
  pc[r] \in BodyStates \cup {"idle", "rejected", "probe", "probing", "doomed", "check",
                             "sync", "restart", "recancel", "reinstall", "aborted"}

Earned ==
  /\ \A r \in Switches : Unstarted(r) => informer[r] = "off"
  /\ DataMeansSynced

LEMMA EarnedInit == Init => Earned
BY ConstantsAssumption DEF Init, Earned, Unstarted, DataMeansSynced

LEMMA EarnedStep == TypeInv /\ Earned /\ TypeInv' /\ [Next]_vars => Earned'
<1> SUFFICES ASSUME TypeInv, Earned, TypeInv', [Next]_vars
             PROVE  Earned'
  OBVIOUS
<1> USE ConstantsAssumption DEF TypeInv, TypeOK, Homed, StartupHomed, Earned, Unstarted,
        DataMeansSynced, CacheOf, Step, BodyStates, GoroutineStates, FinalStates,
        storeVars, stopVars, ctxVars, flagVars, probeVars, managerVars, localVars
<1>1. ASSUME NEW r \in Switches, NEW c \in Contexts, BeginSwitch(r, c)
      PROVE  Earned'
  BY <1>1 DEF BeginSwitch
<1>2. ASSUME NEW r \in Switches, Body(r)
      PROVE  Earned'
  <2>1. CASE RejectSwitch(r) \/ GetOrCreateCache(r) \/ SnapshotActive(r) \/ Commit(r)
             \/ StopForwards(r)
    BY <2>1 DEF RejectSwitch, GetOrCreateCache, SnapshotActive, Commit, StopForwards
  <2>2. CASE UpdateForwards(r) \/ ResetHubble(r) \/ ResetCacheCtx(r) \/ InstallStopCh(r)
    BY <2>2 DEF UpdateForwards, ResetHubble, ResetCacheCtx, InstallStopCh
  <2>3. CASE StopInformers(r)
    BY <2>3 DEF StopInformers, CloseStopCh, CancelCacheCtx
  <2> QED
    BY <1>2, <2>1, <2>2, <2>3 DEF Body
<1>3. ASSUME NEW r \in Switches, CheckSuperseded(r) \/ MarkReady(r)
      PROVE  Earned'
  BY <1>3 DEF CheckSuperseded, MarkReady
<1>4. ASSUME NEW r \in Switches, SyncInformers(r) \/ RestartInformers(r)
      PROVE  Earned'
  BY <1>4 DEF SyncInformers, RestartInformers
<1>5. ASSUME NEW t \in Threads, Probe(t)
      PROVE  Earned'
  BY <1>5 DEF Probe, StartProbe, ProbeSucceeds, ProbeFails, AfterProbe
<1>6. ASSUME NEW ch \in Handles, InformersSynced(ch)
      PROVE  Earned'
  BY <1>6 DEF InformersSynced
<1>7. ASSUME NEW ch \in Handles, RecordSync(ch)
      PROVE  Earned'
  BY <1>7 DEF RecordSync
<1>8. CASE MainReady \/ UNCHANGED vars
  BY <1>8 DEF MainReady, vars
<1> QED
  BY <1>1, <1>2, <1>3, <1>4, <1>5, <1>6, <1>7, <1>8 DEF Next, Goroutine

\* But for the initial cache, no switch finds a cache warm whose informers
\* never synced, however stops and restarts interleave with the syncs.
THEOREM DataIsEarned == Spec => []DataMeansSynced
<1>1. Earned => DataMeansSynced
  BY DEF Earned
<1> QED
  BY TypeInit, TypeStep, EarnedInit, EarnedStep, <1>1, PTL DEF Spec

-----------------------------------------------------------------------------
(* Requests that do not overlap leak informers only by a restart.          *)

Committed(r) == pc[r] \notin BeforeCommit \cup {"idle", "rejected"}

\* A context's constructor channel, or the channel of a cold switch, which its
\* body has installed before the goroutine starts.
Steady(ch) ==
  \/ ch \in Contexts
  \/ ch \in Switches /\ ~warm[ch] /\ pc[ch] \notin BodyStates \cup {"idle", "rejected"}

\* The cache holds no channel, or that of a restart.
Spare(c) == stopCh[c] = Nil \/ (stopCh[c] \in Switches /\ warm[stopCh[c]])

\* A cache does not turn cold: once a switch has found it warm, every later
\* switch to it does.
WarmStaysWarm ==
  /\ \A r \in Switches : Committed(r) /\ warm[r] => target[r] \in hasData
  /\ \A r, s \in Switches :
       pc[r] \in BeforeCommit \ {"load"} /\ ~warm[r] /\ Begun(s) /\ target[s] = target[r]
         => s = r
  /\ \A r, s \in Switches :
       pc[r] \in BodyStates /\ Committed(r) /\ ~warm[r] /\ Committed(s) /\ warm[s]
         => target[s] # target[r]
  /\ \A r \in Switches : pc[r] \in {"restart", "recancel", "reinstall"} => warm[r]

\* Between a stop and the channel that replaces the closed one.
Cleared ==
  \A r \in Switches :
    pc[r] \in {"cancelNew", "resetCtx", "install", "recancel", "reinstall"} => Spare(target[r])

\* So no steady channel is overwritten while it is open.
SteadyHeld ==
  \A ch \in Handles : Steady(ch) /\ ch \notin closed /\ CacheOf(ch) \in caches
                        => stopCh[CacheOf(ch)] = ch

\* Only the active cache, and that of a body under way, hold one.
OthersSpare ==
  /\ Quiet => \A c \in Contexts \ {active} : Spare(c)
  /\ \A r \in Switches :
       /\ pc[r] = "load" \/ (pc[r] \in BodyStates /\ Committed(r))
            => \A c \in Contexts \ {active} : Spare(c)
       /\ pc[r] \in BodyStates /\ Committed(r) => active = target[r]
       /\ pc[r] \in {"snapshot", "stopOld"}
            => \A c \in Contexts \ {active, target[r]} : Spare(c)
       /\ pc[r] = "stopOld" => old[r] = active
       /\ pc[r] \in {"cancelOld", "commit"} => \A c \in Contexts \ {target[r]} : Spare(c)

Leaks == WarmStaysWarm /\ Cleared /\ SteadyHeld /\ OthersSpare

LEMMA LeaksInit == Init => Leaks
<1> SUFFICES ASSUME Init
             PROVE  Leaks
  OBVIOUS
<1> USE ConstantsAssumption DEF Init
<1>1. \A r \in Switches : pc[r] = "idle" /\ warm[r] = FALSE
  OBVIOUS
<1>2. WarmStaysWarm /\ Cleared
  BY <1>1 DEF WarmStaysWarm, Cleared, Committed, BeforeCommit, BodyStates
<1>3. SteadyHeld
  BY <1>1 DEF SteadyHeld, Steady, CacheOf, BodyStates
<1>4. OthersSpare
  BY <1>1 DEF OthersSpare, Spare, Committed, BeforeCommit, BodyStates
<1> QED
  BY <1>2, <1>3, <1>4 DEF Leaks

LEMMA WarmStep ==
  TypeInv /\ AtMostOneBody /\ WarmStaysWarm /\ TypeInv' /\ [Next]_vars => WarmStaysWarm'
<1> SUFFICES ASSUME TypeInv, AtMostOneBody, WarmStaysWarm, TypeInv', [Next]_vars
             PROVE  WarmStaysWarm'
  OBVIOUS
<1> USE ConstantsAssumption DEF TypeInv, TypeOK, Homed, Begun, StartupHomed, AtMostOneBody,
        InFlight, WarmStaysWarm, Committed, Step, BodyStates, BeforeCommit,
        GoroutineStates, FinalStates, storeVars, stopVars, ctxVars, flagVars,
        probeVars, managerVars, localVars
<1>1. ASSUME NEW r \in Switches, NEW c \in Contexts, BeginSwitch(r, c)
      PROVE  WarmStaysWarm'
  BY <1>1 DEF BeginSwitch
<1>2. ASSUME NEW r \in Switches, RejectSwitch(r)
      PROVE  WarmStaysWarm'
  BY <1>2 DEF RejectSwitch
<1>3. ASSUME NEW r \in Switches, GetOrCreateCache(r)
      PROVE  WarmStaysWarm'
  <2>1. /\ pc[r] = "load" /\ pc'[r] = "snapshot"
        /\ \A s \in Switches \ {r} : pc'[s] = pc[s] /\ (warm'[s] <=> warm[s])
        /\ warm'[r] <=> target[r] \in caches
        /\ UNCHANGED <<target, hasData>>
    BY <1>3 DEF GetOrCreateCache
  <2> QED
    BY <2>1
<1>4. ASSUME NEW r \in Switches, SnapshotActive(r)
      PROVE  WarmStaysWarm'
  BY <1>4 DEF SnapshotActive
<1>5. ASSUME NEW r \in Switches, Commit(r)
      PROVE  WarmStaysWarm'
  <2>1. /\ pc[r] = "commit" /\ pc'[r] = "stopForwards"
        /\ \A s \in Switches \ {r} : pc'[s] = pc[s] /\ (warm'[s] <=> warm[s])
        /\ warm'[r] <=> warm[r] /\ target[r] \in hasData
        /\ UNCHANGED <<target, hasData>>
    BY <1>5 DEF Commit
  <2> QED
    BY <2>1
<1>6. ASSUME NEW r \in Switches, StopForwards(r) \/ UpdateForwards(r) \/ ResetHubble(r)
      PROVE  WarmStaysWarm'
  BY <1>6 DEF StopForwards, UpdateForwards, ResetHubble
<1>7. ASSUME NEW r \in Switches, ResetCacheCtx(r)
      PROVE  WarmStaysWarm'
  BY <1>7 DEF ResetCacheCtx
<1>8. ASSUME NEW r \in Switches, InstallStopCh(r)
      PROVE  WarmStaysWarm'
  BY <1>8 DEF InstallStopCh
<1>9. ASSUME NEW r \in Switches, CheckSuperseded(r)
      PROVE  WarmStaysWarm'
  BY <1>9 DEF CheckSuperseded
<1>10. ASSUME NEW r \in Switches, SyncInformers(r) \/ MarkReady(r)
      PROVE  WarmStaysWarm'
  BY <1>10 DEF SyncInformers, MarkReady
<1>11. ASSUME NEW r \in Switches, RestartInformers(r)
      PROVE  WarmStaysWarm'
  BY <1>11 DEF RestartInformers
<1>12. ASSUME NEW r \in Switches, StopInformers(r)
      PROVE  WarmStaysWarm'
  <2>1. CASE CloseStopCh(r, old[r], "stopOld", "cancelOld")
    BY <2>1 DEF CloseStopCh
  <2>2. CASE CancelCacheCtx(r, old[r], "cancelOld", "commit")
    BY <2>2 DEF CancelCacheCtx
  <2>3. CASE CloseStopCh(r, target[r], "stopNew", "cancelNew")
    BY <2>3 DEF CloseStopCh
  <2>4. CASE CancelCacheCtx(r, target[r], "cancelNew", "resetCtx")
    BY <2>4 DEF CancelCacheCtx
  <2>5. CASE CloseStopCh(r, target[r], "restart", "recancel")
    BY <2>5 DEF CloseStopCh
  <2>6. CASE CancelCacheCtx(r, target[r], "recancel", "reinstall")
    BY <2>6 DEF CancelCacheCtx
  <2> QED
    BY <1>12, <2>1, <2>2, <2>3, <2>4, <2>5, <2>6 DEF StopInformers
<1>13. ASSUME NEW t \in Threads, Probe(t)
      PROVE  WarmStaysWarm'
  BY <1>13 DEF Probe, StartProbe, ProbeSucceeds, ProbeFails, AfterProbe
<1>14. ASSUME NEW ch \in Handles, InformersSynced(ch) \/ RecordSync(ch)
      PROVE  WarmStaysWarm'
  BY <1>14 DEF InformersSynced, RecordSync
<1>15. CASE MainReady \/ UNCHANGED vars
  BY <1>15 DEF MainReady, vars
<1> QED
  BY <1>1, <1>2, <1>3, <1>4, <1>5, <1>6, <1>7, <1>8, <1>9, <1>10, <1>11, <1>12, <1>13,
     <1>14, <1>15
     DEF Next, Body, Goroutine

LEMMA ClearedStep ==
  TypeInv /\ AtMostOneBody /\ Channels /\ WarmStaysWarm /\ Cleared /\ TypeInv' /\ [Next]_vars
    => Cleared'
<1> SUFFICES ASSUME TypeInv, AtMostOneBody, Channels, WarmStaysWarm, Cleared, TypeInv',
                    [Next]_vars
             PROVE  Cleared'
  OBVIOUS
<1> USE ConstantsAssumption DEF TypeInv, TypeOK, Homed, Begun, StartupHomed, AtMostOneBody,
        InFlight, Channels, Unmade, CacheOf, WarmStaysWarm, Committed, Cleared,
        Spare, Step, BodyStates, BeforeCommit,
        GoroutineStates, FinalStates, storeVars, stopVars, ctxVars, flagVars,
        probeVars, managerVars, localVars
<1>1. ASSUME NEW r \in Switches, NEW c \in Contexts, BeginSwitch(r, c)
      PROVE  Cleared'
  BY <1>1 DEF BeginSwitch
<1>2. ASSUME NEW r \in Switches, RejectSwitch(r)
      PROVE  Cleared'
  BY <1>2 DEF RejectSwitch
<1>3. ASSUME NEW r \in Switches, GetOrCreateCache(r)
      PROVE  Cleared'
  BY <1>3 DEF GetOrCreateCache
<1>4. ASSUME NEW r \in Switches, SnapshotActive(r)
      PROVE  Cleared'
  BY <1>4 DEF SnapshotActive
<1>5. ASSUME NEW r \in Switches, Commit(r)
      PROVE  Cleared'
  BY <1>5 DEF Commit
<1>6. ASSUME NEW r \in Switches, StopForwards(r) \/ UpdateForwards(r) \/ ResetHubble(r)
      PROVE  Cleared'
  BY <1>6 DEF StopForwards, UpdateForwards, ResetHubble
<1>7. ASSUME NEW r \in Switches, ResetCacheCtx(r)
      PROVE  Cleared'
  BY <1>7 DEF ResetCacheCtx
<1>8. ASSUME NEW r \in Switches, InstallStopCh(r)
      PROVE  Cleared'
  BY <1>8 DEF InstallStopCh
<1>9. ASSUME NEW r \in Switches, CheckSuperseded(r)
      PROVE  Cleared'
  BY <1>9 DEF CheckSuperseded
<1>10. ASSUME NEW r \in Switches, SyncInformers(r) \/ MarkReady(r)
      PROVE  Cleared'
  BY <1>10 DEF SyncInformers, MarkReady
<1>11. ASSUME NEW r \in Switches, RestartInformers(r)
      PROVE  Cleared'
  BY <1>11 DEF RestartInformers
<1>12. ASSUME NEW r \in Switches, StopInformers(r)
      PROVE  Cleared'
  <2>1. CASE CloseStopCh(r, old[r], "stopOld", "cancelOld")
    BY <2>1 DEF CloseStopCh
  <2>2. CASE CancelCacheCtx(r, old[r], "cancelOld", "commit")
    BY <2>2 DEF CancelCacheCtx
  <2>3. CASE CloseStopCh(r, target[r], "stopNew", "cancelNew")
    BY <2>3 DEF CloseStopCh
  <2>4. CASE CancelCacheCtx(r, target[r], "cancelNew", "resetCtx")
    BY <2>4 DEF CancelCacheCtx
  <2>5. CASE CloseStopCh(r, target[r], "restart", "recancel")
    BY <2>5 DEF CloseStopCh
  <2>6. CASE CancelCacheCtx(r, target[r], "recancel", "reinstall")
    BY <2>6 DEF CancelCacheCtx
  <2> QED
    BY <1>12, <2>1, <2>2, <2>3, <2>4, <2>5, <2>6 DEF StopInformers
<1>13. ASSUME NEW t \in Threads, Probe(t)
      PROVE  Cleared'
  BY <1>13 DEF Probe, StartProbe, ProbeSucceeds, ProbeFails, AfterProbe
<1>14. ASSUME NEW ch \in Handles, InformersSynced(ch) \/ RecordSync(ch)
      PROVE  Cleared'
  BY <1>14 DEF InformersSynced, RecordSync
<1>15. CASE MainReady \/ UNCHANGED vars
  BY <1>15 DEF MainReady, vars
<1> QED
  BY <1>1, <1>2, <1>3, <1>4, <1>5, <1>6, <1>7, <1>8, <1>9, <1>10, <1>11, <1>12, <1>13,
     <1>14, <1>15
     DEF Next, Body, Goroutine

LEMMA SteadyStep ==
  TypeInv /\ Channels /\ WarmStaysWarm /\ Cleared /\ SteadyHeld /\ TypeInv' /\ [Next]_vars
    => SteadyHeld'
<1> SUFFICES ASSUME TypeInv, Channels, WarmStaysWarm, Cleared, SteadyHeld, TypeInv',
                    [Next]_vars
             PROVE  SteadyHeld'
  OBVIOUS
<1> USE ConstantsAssumption DEF TypeInv, TypeOK, Homed, Begun, StartupHomed, AtMostOneBody,
        InFlight, Channels, Unmade, CacheOf, WarmStaysWarm, Cleared,
        Spare, Steady, SteadyHeld, Step, BodyStates, BeforeCommit,
        GoroutineStates, FinalStates, storeVars, stopVars, ctxVars, flagVars,
        probeVars, managerVars, localVars
<1>1. ASSUME NEW r \in Switches, NEW c \in Contexts, BeginSwitch(r, c)
      PROVE  SteadyHeld'
  BY <1>1 DEF BeginSwitch
<1>2. ASSUME NEW r \in Switches, RejectSwitch(r)
      PROVE  SteadyHeld'
  BY <1>2 DEF RejectSwitch
<1>3. ASSUME NEW r \in Switches, GetOrCreateCache(r)
      PROVE  SteadyHeld'
  BY <1>3 DEF GetOrCreateCache
<1>4. ASSUME NEW r \in Switches, SnapshotActive(r)
      PROVE  SteadyHeld'
  BY <1>4 DEF SnapshotActive
<1>5. ASSUME NEW r \in Switches, Commit(r)
      PROVE  SteadyHeld'
  BY <1>5 DEF Commit
<1>6. ASSUME NEW r \in Switches, StopForwards(r) \/ UpdateForwards(r) \/ ResetHubble(r)
      PROVE  SteadyHeld'
  BY <1>6 DEF StopForwards, UpdateForwards, ResetHubble
<1>7. ASSUME NEW r \in Switches, ResetCacheCtx(r)
      PROVE  SteadyHeld'
  BY <1>7 DEF ResetCacheCtx
<1>8. ASSUME NEW r \in Switches, InstallStopCh(r)
      PROVE  SteadyHeld'
  BY <1>8 DEF InstallStopCh
<1>9. ASSUME NEW r \in Switches, CheckSuperseded(r)
      PROVE  SteadyHeld'
  BY <1>9 DEF CheckSuperseded
<1>10. ASSUME NEW r \in Switches, SyncInformers(r) \/ MarkReady(r)
      PROVE  SteadyHeld'
  BY <1>10 DEF SyncInformers, MarkReady
<1>11. ASSUME NEW r \in Switches, RestartInformers(r)
      PROVE  SteadyHeld'
  BY <1>11 DEF RestartInformers
<1>12. ASSUME NEW r \in Switches, StopInformers(r)
      PROVE  SteadyHeld'
  <2>1. CASE CloseStopCh(r, old[r], "stopOld", "cancelOld")
    BY <2>1 DEF CloseStopCh
  <2>2. CASE CancelCacheCtx(r, old[r], "cancelOld", "commit")
    BY <2>2 DEF CancelCacheCtx
  <2>3. CASE CloseStopCh(r, target[r], "stopNew", "cancelNew")
    BY <2>3 DEF CloseStopCh
  <2>4. CASE CancelCacheCtx(r, target[r], "cancelNew", "resetCtx")
    BY <2>4 DEF CancelCacheCtx
  <2>5. CASE CloseStopCh(r, target[r], "restart", "recancel")
    BY <2>5 DEF CloseStopCh
  <2>6. CASE CancelCacheCtx(r, target[r], "recancel", "reinstall")
    BY <2>6 DEF CancelCacheCtx
  <2> QED
    BY <1>12, <2>1, <2>2, <2>3, <2>4, <2>5, <2>6 DEF StopInformers
<1>13. ASSUME NEW t \in Threads, Probe(t)
      PROVE  SteadyHeld'
  BY <1>13 DEF Probe, StartProbe, ProbeSucceeds, ProbeFails, AfterProbe
<1>14. ASSUME NEW ch \in Handles, InformersSynced(ch) \/ RecordSync(ch)
      PROVE  SteadyHeld'
  BY <1>14 DEF InformersSynced, RecordSync
<1>15. CASE MainReady \/ UNCHANGED vars
  BY <1>15 DEF MainReady, vars
<1> QED
  BY <1>1, <1>2, <1>3, <1>4, <1>5, <1>6, <1>7, <1>8, <1>9, <1>10, <1>11, <1>12, <1>13,
     <1>14, <1>15
     DEF Next, Body, Goroutine

LEMMA OthersStep ==
  TypeInv /\ AtMostOneBody /\ AtMostOneBody' /\ Channels /\ WarmStaysWarm
  /\ OthersSpare /\ TypeInv' /\ [Next]_vars
    => OthersSpare'
<1> SUFFICES ASSUME TypeInv, AtMostOneBody, AtMostOneBody', Channels, WarmStaysWarm,
                    OthersSpare, TypeInv', [Next]_vars
             PROVE  OthersSpare'
  OBVIOUS
<1> USE ConstantsAssumption DEF TypeInv, TypeOK, Homed, Begun, StartupHomed, AtMostOneBody,
        InFlight, Channels, Unmade, CacheOf, OthersSpare, Quiet,
        Spare, Committed, Step, BodyStates, BeforeCommit,
        GoroutineStates, FinalStates, storeVars, stopVars, ctxVars, flagVars,
        probeVars, managerVars, localVars
<1>1. ASSUME NEW r \in Switches, NEW c \in Contexts, BeginSwitch(r, c)
      PROVE  OthersSpare'
  BY <1>1 DEF BeginSwitch
<1>2. ASSUME NEW r \in Switches, RejectSwitch(r)
      PROVE  OthersSpare'
  BY <1>2 DEF RejectSwitch
<1>3. ASSUME NEW r \in Switches, GetOrCreateCache(r)
      PROVE  OthersSpare'
  BY <1>3 DEF GetOrCreateCache
<1>4. ASSUME NEW r \in Switches, SnapshotActive(r)
      PROVE  OthersSpare'
  BY <1>4 DEF SnapshotActive
<1>5. ASSUME NEW r \in Switches, Commit(r)
      PROVE  OthersSpare'
  BY <1>5 DEF Commit
<1>6. ASSUME NEW r \in Switches, StopForwards(r) \/ UpdateForwards(r) \/ ResetHubble(r)
      PROVE  OthersSpare'
  BY <1>6 DEF StopForwards, UpdateForwards, ResetHubble
<1>7. ASSUME NEW r \in Switches, ResetCacheCtx(r)
      PROVE  OthersSpare'
  BY <1>7 DEF ResetCacheCtx
<1>8. ASSUME NEW r \in Switches, InstallStopCh(r)
      PROVE  OthersSpare'
  BY <1>8 DEF InstallStopCh
<1>9. ASSUME NEW r \in Switches, CheckSuperseded(r)
      PROVE  OthersSpare'
  <2>1. /\ pc[r] = "check" /\ pc'[r] \in {"aborted", "restart", "sync"}
        /\ \A s \in Switches \ {r} : pc'[s] = pc[s]
        /\ UNCHANGED <<active, stopCh, target, old, warm>>
    BY <1>9 DEF CheckSuperseded
  <2> QED
    BY <2>1
<1>10. ASSUME NEW r \in Switches, SyncInformers(r) \/ MarkReady(r)
      PROVE  OthersSpare'
  BY <1>10 DEF SyncInformers, MarkReady
<1>11. ASSUME NEW r \in Switches, RestartInformers(r)
      PROVE  OthersSpare'
  <2>1. warm[r]
    BY <1>11 DEF RestartInformers, WarmStaysWarm
  <2>2. /\ pc[r] = "reinstall" /\ pc'[r] = "markReady"
        /\ \A s \in Switches \ {r} : pc'[s] = pc[s]
        /\ UNCHANGED <<active, target, old, warm>>
    BY <1>11 DEF RestartInformers
  <2>3. \A c \in Contexts : Spare(c) => Spare(c)'
    BY <1>11, <2>1 DEF RestartInformers
  <2> HIDE DEF Spare
  <2> QED
    BY <2>2, <2>3
<1>12. ASSUME NEW r \in Switches, StopInformers(r)
      PROVE  OthersSpare'
  <2>1. CASE CloseStopCh(r, old[r], "stopOld", "cancelOld")
    BY <2>1 DEF CloseStopCh
  <2>2. CASE CancelCacheCtx(r, old[r], "cancelOld", "commit")
    BY <2>2 DEF CancelCacheCtx
  <2>3. CASE CloseStopCh(r, target[r], "stopNew", "cancelNew")
    BY <2>3 DEF CloseStopCh
  <2>4. CASE CancelCacheCtx(r, target[r], "cancelNew", "resetCtx")
    BY <2>4 DEF CancelCacheCtx
  <2>5. CASE CloseStopCh(r, target[r], "restart", "recancel")
    BY <2>5 DEF CloseStopCh
  <2>6. CASE CancelCacheCtx(r, target[r], "recancel", "reinstall")
    BY <2>6 DEF CancelCacheCtx
  <2> QED
    BY <1>12, <2>1, <2>2, <2>3, <2>4, <2>5, <2>6 DEF StopInformers
<1>13. ASSUME NEW t \in Threads, Probe(t)
      PROVE  OthersSpare'
  BY <1>13 DEF Probe, StartProbe, ProbeSucceeds, ProbeFails, AfterProbe
<1>14. ASSUME NEW ch \in Handles, InformersSynced(ch) \/ RecordSync(ch)
      PROVE  OthersSpare'
  BY <1>14 DEF InformersSynced, RecordSync
<1>15. CASE MainReady
  <2>1. UNCHANGED <<active, stopCh, target, old, pc, warm>>
    BY <1>15 DEF MainReady
  <2> QED
    BY <2>1
<1>16. CASE UNCHANGED vars
  <2>1. UNCHANGED <<active, stopCh, target, old, pc, warm>>
    BY <1>16 DEF vars
  <2> QED
    BY <2>1
<1> QED
  BY <1>1, <1>2, <1>3, <1>4, <1>5, <1>6, <1>7, <1>8, <1>9, <1>10, <1>11, <1>12, <1>13,
     <1>14, <1>15, <1>16
     DEF Next, Body, Goroutine

\* If bodies do not overlap, informers that run for a cache no longer served
\* are those of a RestartInformers that came after its test of the generation;
\* start-up and cold starts leave none.
THEOREM SerialSwitchesLeakOnlyRestarts ==
  ASSUME IsFiniteSet(Switches), MaxInFlight = 1
  PROVE  Spec => []OnlyRestartsLeak
<1>1. TypeInv /\ Managers /\ TypeInv' /\ [Next]_vars => Managers'
  BY ManagersStep
<1>2. /\ Managers => AtMostOneBody
      /\ Leaks <=> WarmStaysWarm /\ Cleared /\ SteadyHeld /\ OthersSpare
  BY DEF Managers, Leaks
<1>3. ASSUME TypeInv, Channels, Earned, Leaks
      PROVE  OnlyRestartsLeak
  <2> SUFFICES ASSUME NEW ch \in Handles, Quiet, Running(ch), CacheOf(ch) # active,
                      ~(ch \in Switches /\ warm[ch])
               PROVE  FALSE
    BY DEF OnlyRestartsLeak
  <2>1. Steady(ch) /\ CacheOf(ch) \in caches
    BY <1>3, ConstantsAssumption
       DEF Running, Earned, Unstarted, Steady, CacheOf, TypeInv, TypeOK, Homed, Begun
  <2>2. stopCh[CacheOf(ch)] = ch
    BY <1>3, <2>1 DEF Running, Leaks, SteadyHeld
  <2>3. Spare(CacheOf(ch))
    BY <1>3, <2>1 DEF TypeInv, TypeOK, Leaks, OthersSpare
  <2> QED
    BY <2>2, <2>3, ConstantsAssumption DEF Spare
<1> QED
  BY TypeInit, TypeStep, ChannelInit, ChannelStep, ManagersInit, EarnedInit, EarnedStep,
     LeaksInit, WarmStep, ClearedStep, SteadyStep, OthersStep, <1>1, <1>2, <1>3, PTL
     DEF Spec

-----------------------------------------------------------------------------
(* The cache of the latest switch ends up ready.                           *)

Finished ==
  /\ caches \subseteq Loadable
  /\ \A r \in Switches :
       /\ myGen[r] <= switchGen
       /\ pc[r] = "aborted" => myGen[r] < switchGen
       /\ pc[r] = "rejected" => target[r] \notin Loadable

\* A restart takes CacheReady away only from where it will set it again.
ReadyKept ==
  \A r \in Switches :
    pc[r] = "done" => \/ target[r] \in ready
                      \/ \E s \in Switches : pc[s] = "markReady" /\ target[s] = target[r]

LEMMA FinishedStep == TypeInv /\ Finished /\ TypeInv' /\ [Next]_vars => Finished'
<1> SUFFICES ASSUME TypeInv, Finished, TypeInv', [Next]_vars
             PROVE  Finished'
  OBVIOUS
<1> USE ConstantsAssumption DEF TypeInv, TypeOK, StartupHomed, Finished, Step,
        storeVars, stopVars, ctxVars, flagVars, probeVars, managerVars, localVars
<1>1. ASSUME NEW r \in Switches, NEW c \in Contexts, BeginSwitch(r, c)
      PROVE  Finished'
  BY <1>1 DEF BeginSwitch
<1>2. ASSUME NEW r \in Switches, RejectSwitch(r) \/ GetOrCreateCache(r)
      PROVE  Finished'
  BY <1>2 DEF RejectSwitch, GetOrCreateCache
<1>3. ASSUME NEW r \in Switches, CheckSuperseded(r)
      PROVE  Finished'
  BY <1>3 DEF CheckSuperseded, Superseded
<1>4. ASSUME NEW r \in Switches, \/ SnapshotActive(r) \/ Commit(r) \/ StopForwards(r)
                                 \/ UpdateForwards(r) \/ ResetHubble(r)
      PROVE  Finished'
  BY <1>4 DEF SnapshotActive, Commit, StopForwards, UpdateForwards, ResetHubble
<1>5. ASSUME NEW r \in Switches, ResetCacheCtx(r) \/ InstallStopCh(r) \/ StopInformers(r)
      PROVE  Finished'
  BY <1>5 DEF ResetCacheCtx, InstallStopCh, StopInformers, CloseStopCh, CancelCacheCtx
<1>6. ASSUME NEW r \in Switches, SyncInformers(r) \/ RestartInformers(r) \/ MarkReady(r)
      PROVE  Finished'
  BY <1>6 DEF SyncInformers, RestartInformers, MarkReady
<1>7. ASSUME NEW t \in Threads, Probe(t)
      PROVE  Finished'
  BY <1>7 DEF Probe, StartProbe, ProbeSucceeds, ProbeFails, AfterProbe
<1>8. ASSUME NEW ch \in Handles, InformersSynced(ch) \/ RecordSync(ch)
      PROVE  Finished'
  BY <1>8 DEF InformersSynced, RecordSync
<1>9. CASE MainReady \/ UNCHANGED vars
  BY <1>9 DEF MainReady, vars
<1> QED
  BY <1>1, <1>2, <1>3, <1>4, <1>5, <1>6, <1>7, <1>8, <1>9 DEF Next, Body, Goroutine

LEMMA ReadyStep == TypeInv /\ ReadyKept /\ TypeInv' /\ [Next]_vars => ReadyKept'
<1> SUFFICES ASSUME TypeInv, ReadyKept, TypeInv', [Next]_vars
             PROVE  ReadyKept'
  OBVIOUS
<1> USE ConstantsAssumption DEF TypeInv, TypeOK, Homed, Begun, StartupHomed, ReadyKept,
        Step, storeVars, stopVars, ctxVars, flagVars, probeVars, managerVars, localVars
<1>1. ASSUME NEW r \in Switches, NEW c \in Contexts, BeginSwitch(r, c)
      PROVE  ReadyKept'
  BY <1>1 DEF BeginSwitch
<1>2. ASSUME NEW r \in Switches, Body(r)
      PROVE  ReadyKept'
  <2>1. /\ pc[r] \notin {"done", "markReady"} /\ UNCHANGED <<target, ready>>
        /\ \E to : to # "done" /\ pc' = [pc EXCEPT ![r] = to]
    <3>1. CASE RejectSwitch(r) \/ GetOrCreateCache(r) \/ SnapshotActive(r) \/ Commit(r)
               \/ StopForwards(r)
      BY <3>1 DEF RejectSwitch, GetOrCreateCache, SnapshotActive, Commit, StopForwards
    <3>2. CASE UpdateForwards(r) \/ ResetHubble(r) \/ ResetCacheCtx(r) \/ InstallStopCh(r)
      BY <3>2 DEF UpdateForwards, ResetHubble, ResetCacheCtx, InstallStopCh
    <3>3. CASE StopInformers(r)
      BY <3>3 DEF StopInformers, CloseStopCh, CancelCacheCtx
    <3> QED
      BY <1>2, <3>1, <3>2, <3>3 DEF Body
  <2> QED
    BY <2>1
<1>3. ASSUME NEW r \in Switches, CheckSuperseded(r) \/ SyncInformers(r)
      PROVE  ReadyKept'
  BY <1>3 DEF CheckSuperseded, SyncInformers
<1>4. ASSUME NEW r \in Switches, RestartInformers(r)
      PROVE  ReadyKept'
  BY <1>4 DEF RestartInformers
<1>5. ASSUME NEW r \in Switches, MarkReady(r)
      PROVE  ReadyKept'
  BY <1>5 DEF MarkReady
<1>6. ASSUME NEW t \in Threads, Probe(t)
      PROVE  ReadyKept'
  BY <1>6 DEF Probe, StartProbe, ProbeSucceeds, ProbeFails, AfterProbe
<1>7. ASSUME NEW ch \in Handles, InformersSynced(ch) \/ RecordSync(ch)
      PROVE  ReadyKept'
  BY <1>7 DEF InformersSynced, RecordSync
<1>8. CASE MainReady \/ UNCHANGED vars
  BY <1>8 DEF MainReady, vars
<1> QED
  BY <1>1, <1>2, <1>3, <1>4, <1>5, <1>6, <1>7, <1>8 DEF Next, Goroutine

\* Once everything has settled, the cache of the latest switch is ready, if it
\* is the one served: no older switch's restart takes its flag away for good.
THEOREM LatestEndsReady == Spec => []LatestSwitchReady
<1>1. Init => Finished /\ ReadyKept
  BY ConstantsAssumption DEF Init, Finished, ReadyKept
<1>2. ASSUME TypeInv, Finished, ReadyKept
      PROVE  LatestSwitchReady
  <2> SUFFICES ASSUME Settled, NEW r \in Switches, pc[r] # "idle", Latest(r),
                      active = target[r]
               PROVE  active \in ready
    BY DEF LatestSwitchReady
  <2>1. pc[r] # "aborted"
    BY <1>2 DEF Finished, Latest, TypeInv, TypeOK
  <2>2. pc[r] # "rejected"
    BY <1>2, ConstantsAssumption DEF Finished, TypeInv, TypeOK, Homed
  <2>3. pc[r] = "done"
    BY <2>1, <2>2 DEF Settled, FinalStates, Threads
  <2>4. \A s \in Switches : pc[s] # "markReady"
    BY DEF Settled, FinalStates, Threads
  <2> QED
    BY <1>2, <2>3, <2>4 DEF ReadyKept
<1> QED
  BY TypeInit, TypeStep, FinishedStep, ReadyStep, <1>1, <1>2, PTL DEF Spec
=============================================================================
