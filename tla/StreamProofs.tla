---------------------------- MODULE StreamProofs ----------------------------
(* What runs between the window and a pod: debug pods, shells and their     *)
(* tabs, log streams and the panel of a pod, while requests are under way,  *)
(* the context changes and a socket ends.  Each part's invariant is         *)
(* inductive for its own specification; WindowProofs takes what they hold   *)
(* to the parts of the window side by side.                                 *)
EXTENDS ExecSessions, LogStreams, PodPanel, FiniteSetTheorems, SequenceTheorems, TLAPS

(***************************************************************************)
(* ExecSessions: the launcher of debug pods                                *)
(***************************************************************************)

\* What is known of a launch and of its pod.
LaunchRecords ==
  [at: {"idle", "creating", "waiting", "polling", "up", "failed", "over"}, ctx: ExecContexts]
PodRecords == [is: {"none", "pending", "running", "gone"}, on: ExecContexts]

\* A launch that has not begun has no entry and no pod; while one is on its way its
\* entry waits, or has gone with the list; afterwards an entry goes only with the list
\* or by its deletion.
StageOK(l) ==
  /\ launchOf[l].at = "idle" =>
       debugPods[l] = "none" /\ debugPod[l].is = "none" /\ deletions[l] = "none"
  /\ LaunchRuns(l) => debugPods[l] \in {"creating", "none"} /\ deletions[l] = "none"
  /\ debugPods[l] = "none" => launchOf[l].at = "idle" \/ l \in left \/ deletions[l] # "none"

\* Unless a launch's context was left since: a pod in the cluster of its context is in
\* the one that is served, and a switch under way is to its context.
HomeOK(l) ==
  launchOf[l].at # "idle" /\ l \notin left =>
    /\ InCluster(l) /\ debugPod[l].on = launchOf[l].ctx => debugPod[l].on = bench.serves
    /\ bench.ctx # bench.serves => launchOf[l].ctx = bench.ctx

LaunchInv == LauncherTrue /\ \A l \in Launches : StageOK(l) /\ HomeOK(l)

\* Initially nothing is launched.
LEMMA LaunchStarts == LaunchInit => LaunchInv
BY ExecAssumption, LaunchAssumption
DEF LaunchInit, LaunchInv, LauncherTrue, LaunchTypeOK, LaunchesSettle, PodsListed, ListOfContext,
    StageOK, HomeOK, InCluster, LaunchRuns

\* What every step needs to know.
LEMMA LaunchInvTells == LaunchInv => LauncherTrue
BY DEF LaunchInv

\* One launch goes on; the others, and its context, stay.
LEMMA GoesTells ==
  ASSUME LaunchTypeOK, NEW l \in Launches,
         NEW step \in {"idle", "creating", "waiting", "polling", "up", "failed", "over"},
         Goes(l, step)
  PROVE  /\ launchOf' \in [Launches -> LaunchRecords]
         /\ launchOf'[l].at = step
         /\ \A k \in Launches : launchOf'[k].ctx = launchOf[k].ctx
         /\ \A k \in Launches \ {l} : launchOf'[k].at = launchOf[k].at
BY DEF LaunchTypeOK, Goes, LaunchRecords

\* A pod comes or changes; the others stay.
LEMMA PodTells ==
  ASSUME LaunchTypeOK, NEW l \in Launches,
         NEW x \in PodRecords,
         debugPod' = [debugPod EXCEPT ![l] = x]
  PROVE  /\ debugPod' \in [Launches -> PodRecords]
         /\ debugPod'[l] = x /\ \A k \in Launches \ {l} : debugPod'[k] = debugPod[k]
BY DEF LaunchTypeOK, PodRecords

\* A launch begins.
LEMMA LaunchPodKeeps ==
  ASSUME LaunchInv, NEW l \in Launches, LaunchPod(l) PROVE LaunchInv'
<1> USE LaunchAssumption, ExecAssumption
    DEF LaunchInv, LauncherTrue, LaunchTypeOK, InCluster, LaunchRuns, LaunchRecords, PodRecords
<1>1. LaunchTypeOK'
  BY DEF LaunchPod, LaunchEnabled, benchPast
<1>2. LaunchesSettle'
  BY DEF LaunchesSettle, ListOfContext, StageOK, LaunchPod, LaunchEnabled, benchPast
<1>3. PodsListed'
  BY DEF PodsListed, StageOK, HomeOK, LaunchPod, LaunchEnabled, benchPast
<1>4. ListOfContext'
  BY DEF ListOfContext, StageOK, HomeOK, LaunchPod, LaunchEnabled, benchPast
<1>0. /\ launchOf'[l] = [at |-> "creating", ctx |-> bench.ctx] /\ debugPods'[l] = "creating"
      /\ \A k \in Launches \ {l} : launchOf'[k] = launchOf[k] /\ debugPods'[k] = debugPods[k]
      /\ launchOf[l].at = "idle" /\ UNCHANGED <<debugPod, deletions, left>>
  BY DEF LaunchPod, benchPast
<1>5. \A k \in Launches : StageOK(k)'
  <2>1. StageOK(l)'
    BY <1>0 DEF StageOK
  <2>2. \A k \in Launches \ {l} : StageOK(k)'
    BY <1>0 DEF StageOK
  <2> QED BY <2>1, <2>2
<1>6. \A k \in Launches : HomeOK(k)'
  BY DEF HomeOK, StageOK, LaunchPod, LaunchEnabled, benchPast
<1> QED
  BY <1>1, <1>2, <1>3, <1>4, <1>5, <1>6

\* Its pod is created.
LEMMA PodCreatedKeeps ==
  ASSUME LaunchInv, NEW l \in Launches, PodCreated(l) PROVE LaunchInv'
<1> USE LaunchAssumption, ExecAssumption
    DEF LaunchInv, LauncherTrue, LaunchTypeOK, InCluster, LaunchRuns, LaunchRecords, PodRecords
<1>0. /\ launchOf[l].at = "creating" /\ launchOf' \in [Launches -> LaunchRecords]
      /\ \A k \in Launches : launchOf'[k].ctx = launchOf[k].ctx
      /\ \A k \in Launches \ {l} : launchOf'[k].at = launchOf[k].at
      /\ \A k \in Launches \ {l} : debugPod'[k] = debugPod[k]
      /\ debugPod' \in [Launches -> PodRecords]
      /\ launchOf'[l].at \in {"waiting", "failed"}
      /\ debugPod'[l] = debugPod[l] \/ debugPod'[l].on = bench.serves
      /\ UNCHANGED <<bench, debugPods, launching, deletions, benchPast>>
  <2>1. CASE Goes(l, "failed") /\ UNCHANGED debugPod
    BY <2>1, GoesTells DEF PodCreated
  <2>2. CASE Goes(l, "waiting")
             /\ debugPod' = [debugPod EXCEPT ![l] = [is |-> "pending", on |-> bench.serves]]
    BY <2>2, GoesTells, PodTells DEF PodCreated
  <2> QED BY <2>1, <2>2 DEF PodCreated
<1>1. LaunchTypeOK'
  BY <1>0 DEF benchPast
<1>2. LaunchesSettle'
  BY <1>0 DEF LaunchesSettle, ListOfContext, StageOK, benchPast
<1>3. PodsListed'
  <2>1. \A k \in Launches \ {l} :
          /\ launchOf'[k].ctx = launchOf[k].ctx /\ debugPod'[k] = debugPod[k]
          /\ debugPods'[k] = debugPods[k] /\ deletions'[k] = deletions[k] /\ left' = left
    BY <1>0 DEF benchPast
  <2>2. debugPods'[l] = "none" => l \in left'
    BY <1>0 DEF StageOK, benchPast
  <2> QED BY <2>1, <2>2 DEF PodsListed
<1>4. ListOfContext'
  BY <1>0 DEF ListOfContext, StageOK, HomeOK, benchPast
<1>5. \A k \in Launches : StageOK(k)'
  BY <1>0 DEF StageOK, HomeOK, benchPast
<1>6. \A k \in Launches : HomeOK(k)'
  BY <1>0, SMTT(30) DEF HomeOK, StageOK, benchPast
<1> QED
  BY <1>1, <1>2, <1>3, <1>4, <1>5, <1>6

\* It asks for the pods, or stops as its context was left.
LEMMA PollPodsKeeps ==
  ASSUME LaunchInv, NEW l \in Launches, PollPods(l) PROVE LaunchInv'
<1> USE LaunchAssumption, ExecAssumption
    DEF LaunchInv, LauncherTrue, LaunchTypeOK, InCluster, LaunchRuns, LaunchRecords, PodRecords
<1>0. /\ launchOf[l].at = "waiting" /\ launchOf' \in [Launches -> LaunchRecords]
      /\ \A k \in Launches : launchOf'[k].ctx = launchOf[k].ctx
      /\ \A k \in Launches \ {l} : launchOf'[k].at = launchOf[k].at
      /\ \/ launchOf'[l].at = "polling" /\ UNCHANGED launching
         \/ /\ launchOf'[l].at = "over" /\ bench.ctx # launchOf[l].ctx
            /\ launching' = IF launching = l THEN NoLaunch ELSE launching
      /\ UNCHANGED <<bench, debugPods, debugPod, deletions, benchPast>>
  BY GoesTells DEF PollPods, LaunchOver, Stays
<1>1. LaunchTypeOK'
  BY <1>0 DEF benchPast
<1>2. LaunchesSettle'
  <2>1. launching' # NoLaunch => LaunchRuns(launching)'
    BY <1>0 DEF LaunchesSettle
  <2>2. debugPods[l] = "creating" => LaunchRuns(l)' \/ l \in takenBack'
    BY <1>0 DEF ListOfContext, benchPast
  <2>3. \A k \in Launches \ {l} :
          debugPods'[k] = "creating" => LaunchRuns(k)' \/ k \in takenBack'
    BY <1>0 DEF LaunchesSettle, benchPast
  <2> QED BY <1>0, <2>1, <2>2, <2>3 DEF LaunchesSettle
<1>3. PodsListed'
  BY <1>0 DEF PodsListed, StageOK, HomeOK, benchPast
<1>4. ListOfContext'
  BY <1>0 DEF ListOfContext, StageOK, HomeOK, benchPast
<1>5. \A k \in Launches : StageOK(k)'
  BY <1>0 DEF StageOK, HomeOK, benchPast
<1>6. \A k \in Launches : HomeOK(k)'
  BY <1>0 DEF HomeOK, StageOK, benchPast
<1> QED
  BY <1>1, <1>2, <1>3, <1>4, <1>5, <1>6

\* It reads them.
LEMMA PodsReadKeeps ==
  ASSUME LaunchInv, NEW l \in Launches, PodsRead(l) PROVE LaunchInv'
<1> USE LaunchAssumption, ExecAssumption
    DEF LaunchInv, LauncherTrue, LaunchTypeOK, InCluster, LaunchRuns, LaunchRecords, PodRecords
<1>0. /\ launchOf[l].at = "polling" /\ launchOf' \in [Launches -> LaunchRecords]
      /\ \A k \in Launches : launchOf'[k].ctx = launchOf[k].ctx
      /\ \A k \in Launches \ {l} : launchOf'[k].at = launchOf[k].at
      /\ launchOf'[l].at \in {"up", "waiting", "failed"}
      /\ UNCHANGED <<bench, debugPods, launching, debugPod, deletions, benchPast>>
  BY GoesTells DEF PodsRead
<1>1. LaunchTypeOK'
  BY <1>0 DEF benchPast
<1>2. LaunchesSettle'
  BY <1>0 DEF LaunchesSettle, ListOfContext, StageOK, benchPast
<1>3. PodsListed'
  BY <1>0 DEF PodsListed, StageOK, HomeOK, benchPast
<1>4. ListOfContext'
  BY <1>0 DEF ListOfContext, StageOK, HomeOK, benchPast
<1>5. \A k \in Launches : StageOK(k)'
  BY <1>0 DEF StageOK, HomeOK, benchPast
<1>6. \A k \in Launches : HomeOK(k)'
  BY <1>0 DEF HomeOK, StageOK, benchPast
<1> QED
  BY <1>1, <1>2, <1>3, <1>4, <1>5, <1>6

\* It ends with a shell.
LEMMA LaunchUpKeeps ==
  ASSUME LaunchInv, NEW l \in Launches, LaunchUp(l) PROVE LaunchInv'
<1> USE LaunchAssumption, ExecAssumption
    DEF LaunchInv, LauncherTrue, LaunchTypeOK, InCluster, LaunchRuns, LaunchRecords, PodRecords
<1>0. /\ launchOf[l].at = "up" /\ launchOf' \in [Launches -> LaunchRecords]
      /\ \A k \in Launches : launchOf'[k].ctx = launchOf[k].ctx
      /\ \A k \in Launches \ {l} : launchOf'[k].at = launchOf[k].at
      /\ launchOf'[l].at = "over"
      /\ launching' = IF launching = l THEN NoLaunch ELSE launching
  BY GoesTells DEF LaunchUp, LaunchOver
<1>1. LaunchTypeOK'
  BY <1>0, SMTT(30) DEF LaunchUp, Stays, Entry, benchPast
<1>2. LaunchesSettle'
  <2>1. debugPods'[l] # "creating" \/ l \in takenBack
    BY <1>0 DEF ListOfContext, LaunchUp, Stays, Entry
  <2>2. /\ \A k \in Launches \ {l} : debugPods'[k] = debugPods[k]
        /\ takenBack' = takenBack
    BY DEF LaunchUp, Entry
  <2> QED BY <1>0, <2>1, <2>2 DEF LaunchesSettle
<1>3. PodsListed'
  BY <1>0 DEF PodsListed, StageOK, HomeOK, LaunchUp, Stays, Entry, benchPast
<1>4. ListOfContext'
  BY <1>0 DEF ListOfContext, StageOK, HomeOK, LaunchUp, Stays, Entry, benchPast
<1>5. \A k \in Launches : StageOK(k)'
  BY <1>0 DEF StageOK, HomeOK, LaunchUp, Stays, Entry, benchPast
<1>6. \A k \in Launches : HomeOK(k)'
  BY <1>0 DEF HomeOK, StageOK, LaunchUp, Stays, Entry, benchPast
<1> QED
  BY <1>1, <1>2, <1>3, <1>4, <1>5, <1>6

\* It ends with an error.
LEMMA LaunchFailsKeeps ==
  ASSUME LaunchInv, NEW l \in Launches, LaunchFails(l) PROVE LaunchInv'
<1> USE LaunchAssumption, ExecAssumption
    DEF LaunchInv, LauncherTrue, LaunchTypeOK, InCluster, LaunchRuns, LaunchRecords, PodRecords
<1>0. /\ launchOf[l].at = "failed" /\ launchOf' \in [Launches -> LaunchRecords]
      /\ \A k \in Launches : launchOf'[k].ctx = launchOf[k].ctx
      /\ \A k \in Launches \ {l} : launchOf'[k].at = launchOf[k].at
      /\ launchOf'[l].at = "over"
      /\ launching' = IF launching = l THEN NoLaunch ELSE launching
  BY GoesTells DEF LaunchFails, LaunchOver
<1>1. LaunchTypeOK'
  BY <1>0 DEF LaunchFails, Stays, Entry, benchPast
<1>2. LaunchesSettle'
  <2>1. debugPods'[l] # "creating" \/ l \in takenBack
    BY <1>0 DEF ListOfContext, LaunchFails, Stays, Entry
  <2>2. /\ \A k \in Launches \ {l} : debugPods'[k] = debugPods[k]
        /\ takenBack' = takenBack
    BY DEF LaunchFails, Entry, benchPast
  <2> QED BY <1>0, <2>1, <2>2 DEF LaunchesSettle
<1>3. PodsListed'
  BY <1>0 DEF PodsListed, StageOK, HomeOK, LaunchFails, Stays, Entry, benchPast
<1>4. ListOfContext'
  BY <1>0 DEF ListOfContext, StageOK, HomeOK, LaunchFails, Stays, Entry, benchPast
<1>5. \A k \in Launches : StageOK(k)'
  BY <1>0 DEF StageOK, HomeOK, LaunchFails, Stays, Entry, benchPast
<1>6. \A k \in Launches : HomeOK(k)'
  BY <1>0 DEF HomeOK, StageOK, LaunchFails, Stays, Entry, benchPast
<1> QED
  BY <1>1, <1>2, <1>3, <1>4, <1>5, <1>6

\* A request to delete is answered.
LEMMA PodDeletedKeeps ==
  ASSUME LaunchInv, NEW l \in Launches, PodDeleted(l) PROVE LaunchInv'
<1> USE LaunchAssumption, ExecAssumption
    DEF LaunchInv, LauncherTrue, LaunchTypeOK, InCluster, LaunchRuns, LaunchRecords, PodRecords
<1>1. deletions[l] = "sent" /\ UNCHANGED <<bench, debugPods, launching, launchOf, benchPast>>
  BY DEF PodDeleted
<1>2. \/ /\ deletions' = [deletions EXCEPT ![l] = "done"]
         /\ debugPod' = [debugPod EXCEPT ![l].is = "gone"]
      \/ /\ ~(InCluster(l) /\ debugPod[l].on = bench.serves)
         /\ deletions' = [deletions EXCEPT ![l] = "missed"] /\ UNCHANGED debugPod
      \/ deletions' = [deletions EXCEPT ![l] = "refused"] /\ UNCHANGED debugPod
  BY Zenon DEF PodDeleted
<1>3. /\ \/ deletions'[l] = "done" /\ debugPod'[l].is = "gone"
         \/ /\ deletions'[l] = "missed" /\ debugPod'[l] = debugPod[l]
            /\ ~(InCluster(l) /\ debugPod[l].on = bench.serves)
         \/ deletions'[l] = "refused" /\ debugPod'[l] = debugPod[l]
      /\ debugPod' \in [Launches -> PodRecords]
      /\ deletions' \in [Launches -> {"none", "sent", "done", "refused", "missed"}]
      /\ \A k \in Launches \ {l} : deletions'[k] = deletions[k] /\ debugPod'[k] = debugPod[k]
  <2>1. CASE UNCHANGED debugPod
    BY <1>2, <2>1
  <2>2. CASE deletions' = [deletions EXCEPT ![l] = "done"]
             /\ debugPod' = [debugPod EXCEPT ![l].is = "gone"]
    BY <2>2
  <2> QED BY <1>2, <2>1, <2>2
<1>4. LaunchTypeOK'
  BY <1>1, <1>3 DEF benchPast
<1>5. LaunchesSettle' /\ ListOfContext'
  BY <1>1 DEF LaunchesSettle, ListOfContext, benchPast
<1>6. \A k \in Launches \ {l} : StageOK(k)' /\ HomeOK(k)'
  BY <1>1, <1>3 DEF StageOK, HomeOK, benchPast
<1>7. StageOK(l)' /\ HomeOK(l)'
  BY <1>1, <1>3 DEF StageOK, HomeOK, benchPast
<1>8. PodsListed'
  BY <1>1, <1>3 DEF PodsListed, StageOK, HomeOK, benchPast
<1> QED
  BY <1>4, <1>5, <1>6, <1>7, <1>8

\* A pod starts or is gone.
LEMMA PodTurnsKeeps ==
  ASSUME LaunchInv, NEW l \in Launches, PodTurns(l) PROVE LaunchInv'
<1> USE LaunchAssumption, ExecAssumption
    DEF LaunchInv, LauncherTrue, LaunchTypeOK, InCluster, LaunchRuns, LaunchRecords, PodRecords
<1>1. LaunchTypeOK'
  BY DEF PodTurns, benchPast
<1>2. LaunchesSettle'
  BY DEF LaunchesSettle, ListOfContext, StageOK, PodTurns, benchPast
<1>3. PodsListed'
  BY DEF PodsListed, StageOK, HomeOK, PodTurns, benchPast
<1>4. ListOfContext'
  BY DEF ListOfContext, StageOK, HomeOK, PodTurns, benchPast
<1>5. \A k \in Launches : StageOK(k)'
  BY DEF StageOK, HomeOK, PodTurns, benchPast
<1>6. \A k \in Launches : HomeOK(k)'
  BY DEF HomeOK, StageOK, PodTurns, benchPast
<1> QED
  BY <1>1, <1>2, <1>3, <1>4, <1>5, <1>6

\* Entries are deleted.
LEMMA StopPodsKeeps ==
  ASSUME LaunchInv, NEW L \in SUBSET Launches, StopPods(L) PROVE LaunchInv'
<1> USE LaunchAssumption, ExecAssumption
    DEF LaunchInv, LauncherTrue, LaunchTypeOK, InCluster, LaunchRuns, LaunchRecords, PodRecords
<1>1. LaunchTypeOK'
  BY DEF StopPods, Deletable, benchPast
<1>2. LaunchesSettle'
  BY DEF LaunchesSettle, ListOfContext, StageOK, StopPods, Deletable, benchPast
<1>3. PodsListed'
  BY DEF PodsListed, StageOK, HomeOK, StopPods, Deletable, benchPast
<1>4. ListOfContext'
  BY DEF ListOfContext, StageOK, HomeOK, StopPods, Deletable, benchPast
<1>5. \A k \in Launches : StageOK(k)'
  BY DEF StageOK, HomeOK, StopPods, Deletable, benchPast
<1>6. \A k \in Launches : HomeOK(k)'
  BY DEF HomeOK, StageOK, StopPods, Deletable, benchPast
<1> QED
  BY <1>1, <1>2, <1>3, <1>4, <1>5, <1>6

\* The launcher is opened again.
LEMMA VisitKeeps == LaunchInv /\ VisitLauncher => LaunchInv'
<1> SUFFICES ASSUME LaunchInv, VisitLauncher PROVE LaunchInv'
  OBVIOUS
<1> USE LaunchAssumption, ExecAssumption
    DEF LaunchInv, LauncherTrue, LaunchTypeOK, InCluster, LaunchRuns, LaunchRecords, PodRecords
<1>1. LaunchTypeOK'
  BY DEF VisitLauncher, BenchTurn, benchPast
<1>2. LaunchesSettle'
  BY DEF LaunchesSettle, ListOfContext, StageOK, VisitLauncher, BenchTurn, benchPast
<1>3. PodsListed'
  BY DEF PodsListed, StageOK, HomeOK, VisitLauncher, BenchTurn, benchPast
<1>4. ListOfContext'
  BY DEF ListOfContext, StageOK, HomeOK, VisitLauncher, BenchTurn, benchPast
<1>5. \A k \in Launches : StageOK(k)'
  BY DEF StageOK, HomeOK, VisitLauncher, BenchTurn, benchPast
<1>6. \A k \in Launches : HomeOK(k)'
  BY DEF HomeOK, StageOK, VisitLauncher, BenchTurn, benchPast
<1> QED
  BY <1>1, <1>2, <1>3, <1>4, <1>5, <1>6

\* The context is left.
LEMMA LeaveBenchKeeps ==
  ASSUME LaunchInv, NEW c \in ExecContexts, LeaveBench(c) PROVE LaunchInv'
<1> USE LaunchAssumption, ExecAssumption
    DEF LaunchInv, LauncherTrue, LaunchTypeOK, InCluster, LaunchRuns, LaunchRecords, PodRecords
<1>1. LaunchTypeOK'
  <2>1. bench' \in [ctx: ExecContexts, serves: ExecContexts, turns: 0..MaxBenchTurns]
    <3>1. bench' = [ctx |-> c, serves |-> bench.serves, turns |-> bench.turns + 1]
      BY DEF LeaveBench
    <3>2. bench.turns + 1 \in 0..MaxBenchTurns /\ bench.serves \in ExecContexts
      BY DEF LeaveBench, BenchTurn
    <3> QED BY <3>1, <3>2
  <2>2. debugPods' \in [Launches -> {"none", "creating", "running", "error"}]
    BY DEF LeaveBench, ListAfter
  <2> QED BY <2>1, <2>2 DEF LeaveBench
<1>2. LaunchesSettle'
  BY DEF LaunchesSettle, ListOfContext, StageOK, LeaveBench, ListAfter, BenchTurn, benchPast
<1>3. PodsListed'
  BY DEF PodsListed, StageOK, HomeOK, LeaveBench, ListAfter, BenchTurn, benchPast
<1>4. ListOfContext'
  BY DEF ListOfContext, StageOK, HomeOK, LeaveBench, ListAfter, BenchTurn, benchPast
<1>5. \A k \in Launches : StageOK(k)'
  BY DEF StageOK, HomeOK, LeaveBench, ListAfter, BenchTurn, benchPast
<1>6. \A k \in Launches : HomeOK(k)'
  BY DEF HomeOK, StageOK, LeaveBench, ListAfter, BenchTurn, benchPast
<1> QED
  BY <1>1, <1>2, <1>3, <1>4, <1>5, <1>6

\* The sidecar follows, or the context is taken back.
LEMMA BenchServedKeeps == LaunchInv /\ BenchServed => LaunchInv'
<1> SUFFICES ASSUME LaunchInv, BenchServed PROVE LaunchInv'
  OBVIOUS
<1> USE LaunchAssumption, ExecAssumption
    DEF LaunchInv, LauncherTrue, LaunchTypeOK, InCluster, LaunchRuns, LaunchRecords, PodRecords
<1>1. LaunchTypeOK'
  BY DEF BenchServed, benchPast
<1>2. LaunchesSettle'
  BY DEF LaunchesSettle, ListOfContext, StageOK, BenchServed, benchPast
<1>3. PodsListed'
  BY DEF PodsListed, StageOK, HomeOK, BenchServed, benchPast
<1>4. ListOfContext'
  BY DEF ListOfContext, StageOK, HomeOK, BenchServed, benchPast
<1>5. \A k \in Launches : StageOK(k)'
  BY DEF StageOK, HomeOK, BenchServed, benchPast
<1>6. \A k \in Launches : HomeOK(k)'
  BY DEF HomeOK, StageOK, BenchServed, benchPast
<1> QED
  BY <1>1, <1>2, <1>3, <1>4, <1>5, <1>6

\* No way a launch can end leaves its button disabled, its entry at "creating" or its pod
\* out of the list: unless its context was left or taken back, its deletion is under way
\* or was refused, or another cluster was asked to create it.
THEOREM LaunchesHold == LaunchSpec => []LauncherTrue
<1>1. LaunchInv /\ [LaunchNext]_benchVars => LaunchInv'
  <2> SUFFICES ASSUME LaunchInv, [LaunchNext]_benchVars PROVE LaunchInv'
    OBVIOUS
  <2>1. CASE UNCHANGED benchVars
    BY <2>1 DEF benchVars, LaunchInv, LauncherTrue, LaunchTypeOK, LaunchesSettle, PodsListed,
                ListOfContext, StageOK, HomeOK, InCluster, LaunchRuns
  <2>2. ASSUME NEW l \in Launches,
               \/ LaunchPod(l) \/ PodCreated(l) \/ PollPods(l) \/ PodsRead(l)
               \/ LaunchUp(l) \/ LaunchFails(l) \/ PodDeleted(l) \/ PodTurns(l)
        PROVE  LaunchInv'
    BY <2>2, LaunchPodKeeps, PodCreatedKeeps, PollPodsKeeps, PodsReadKeeps, LaunchUpKeeps,
       LaunchFailsKeeps, PodDeletedKeeps, PodTurnsKeeps
  <2> QED
    BY <2>1, <2>2, StopPodsKeeps, VisitKeeps, LeaveBenchKeeps, BenchServedKeeps DEF LaunchNext
<1> QED
  BY <1>1, LaunchStarts, LaunchInvTells, PTL DEF LaunchSpec

(***************************************************************************)
(* Queues of messages                                                      *)
(***************************************************************************)

\* A message is on its way.
Has(q, x) == \E i \in DOMAIN q : q[i] = x

\* One more is sent.
LEMMA HasAppend ==
  ASSUME NEW S, NEW q \in Seq(S), NEW e \in S
  PROVE  Append(q, e) \in Seq(S) /\ \A x : Has(Append(q, e), x) <=> Has(q, x) \/ x = e
<1>1. /\ Append(q, e) \in Seq(S) /\ Len(q) \in Nat
      /\ DOMAIN q = 1..Len(q) /\ DOMAIN Append(q, e) = 1..(Len(q) + 1)
      /\ \A i \in 1..Len(q) : Append(q, e)[i] = q[i]
      /\ Append(q, e)[Len(q) + 1] = e
  OBVIOUS
<1>2. ASSUME NEW x PROVE Has(Append(q, e), x) <=> Has(q, x) \/ x = e
  <2>1. ASSUME Has(Append(q, e), x) PROVE Has(q, x) \/ x = e
    <3>1. PICK i \in 1..(Len(q) + 1) : Append(q, e)[i] = x
      BY <1>1, <2>1 DEF Has
    <3>2. CASE i = Len(q) + 1
      BY <1>1, <3>1, <3>2
    <3>3. CASE i # Len(q) + 1
      <4>1. i \in 1..Len(q)
        BY <1>1, <3>3
      <4> QED BY <1>1, <3>1, <4>1 DEF Has
    <3> QED BY <3>2, <3>3
  <2>2. ASSUME Has(q, x) PROVE Has(Append(q, e), x)
    <3>1. PICK i \in 1..Len(q) : q[i] = x
      BY <1>1, <2>2 DEF Has
    <3>2. i \in 1..(Len(q) + 1) /\ Append(q, e)[i] = x
      BY <1>1, <3>1
    <3> QED BY <1>1, <3>2 DEF Has
  <2>3. ASSUME x = e PROVE Has(Append(q, e), x)
    <3>1. Len(q) + 1 \in 1..(Len(q) + 1)
      BY <1>1
    <3> QED BY <1>1, <2>3, <3>1 DEF Has
  <2> QED BY <2>1, <2>2, <2>3
<1> QED BY <1>1, <1>2

\* Several more are sent.
LEMMA HasConcat ==
  ASSUME NEW S, NEW q \in Seq(S), NEW y \in Seq(S)
  PROVE  q \o y \in Seq(S) /\ \A x : Has(q \o y, x) <=> Has(q, x) \/ Has(y, x)
<1>1. /\ q \o y \in Seq(S) /\ Len(q) \in Nat /\ Len(y) \in Nat
      /\ DOMAIN q = 1..Len(q) /\ DOMAIN y = 1..Len(y)
      /\ DOMAIN (q \o y) = 1..(Len(q) + Len(y))
      /\ \A i \in 1..(Len(q) + Len(y)) :
            (q \o y)[i] = IF i <= Len(q) THEN q[i] ELSE y[i - Len(q)]
  BY ConcatProperties, LenProperties
<1>2. ASSUME NEW x PROVE Has(q \o y, x) <=> Has(q, x) \/ Has(y, x)
  <2>1. ASSUME Has(q \o y, x) PROVE Has(q, x) \/ Has(y, x)
    <3>1. PICK i \in 1..(Len(q) + Len(y)) : (q \o y)[i] = x
      BY <1>1, <2>1 DEF Has
    <3>2. CASE i <= Len(q)
      <4>1. i \in 1..Len(q)
        BY <1>1, <3>2
      <4> QED BY <1>1, <3>1, <3>2, <4>1 DEF Has
    <3>3. CASE ~(i <= Len(q))
      <4>1. i - Len(q) \in 1..Len(y)
        BY <1>1, <3>3
      <4>2. y[i - Len(q)] = x
        BY <1>1, <3>1, <3>3
      <4> QED BY <1>1, <4>1, <4>2 DEF Has
    <3> QED BY <3>2, <3>3
  <2>2. ASSUME Has(q, x) PROVE Has(q \o y, x)
    <3>1. PICK i \in 1..Len(q) : q[i] = x
      BY <1>1, <2>2 DEF Has
    <3>2. i \in 1..(Len(q) + Len(y)) /\ (q \o y)[i] = x
      BY <1>1, <3>1
    <3> QED BY <1>1, <3>2 DEF Has
  <2>3. ASSUME Has(y, x) PROVE Has(q \o y, x)
    <3>1. PICK i \in 1..Len(y) : y[i] = x
      BY <1>1, <2>3 DEF Has
    <3>2. /\ i + Len(q) \in 1..(Len(q) + Len(y)) /\ ~(i + Len(q) <= Len(q))
          /\ (i + Len(q)) - Len(q) = i
      BY <1>1, <3>1
    <3>3. (q \o y)[i + Len(q)] = x
      BY <1>1, <3>1, <3>2
    <3> QED BY <1>1, <3>2, <3>3 DEF Has
  <2> QED BY <2>1, <2>2, <2>3
<1> QED BY <1>1, <1>2

\* Two more are sent.
LEMMA HasPair ==
  ASSUME NEW S, NEW q \in Seq(S), NEW a \in S, NEW b \in S
  PROVE  q \o <<a, b>> \in Seq(S)
         /\ \A x : Has(q \o <<a, b>>, x) <=> Has(q, x) \/ x = a \/ x = b
<1>1. <<a, b>> \in Seq(S)
  OBVIOUS
<1>2. \A x : Has(<<a, b>>, x) <=> x = a \/ x = b
  <2>1. DOMAIN <<a, b>> = {1, 2} /\ <<a, b>>[1] = a /\ <<a, b>>[2] = b
    OBVIOUS
  <2> QED BY <2>1 DEF Has
<1>3. q \o <<a, b>> \in Seq(S)
      /\ \A x : Has(q \o <<a, b>>, x) <=> Has(q, x) \/ Has(<<a, b>>, x)
  BY <1>1, HasConcat
<1> QED BY <1>2, <1>3

\* The first is heard.
LEMMA HasTail ==
  ASSUME NEW S, NEW q \in Seq(S), q # <<>>
  PROVE  /\ Tail(q) \in Seq(S) /\ Head(q) \in S
         /\ \A x : Has(q, x) <=> x = Head(q) \/ Has(Tail(q), x)
<1>1. /\ Tail(q) \in Seq(S) /\ Head(q) \in S /\ Head(q) = q[1]
      /\ Len(q) \in Nat /\ Len(q) >= 1
      /\ DOMAIN q = 1..Len(q) /\ DOMAIN Tail(q) = 1..(Len(q) - 1)
      /\ \A i \in 1..(Len(q) - 1) : Tail(q)[i] = q[i + 1]
  BY HeadTailProperties, LenProperties, EmptySeq
<1>2. ASSUME NEW x PROVE Has(q, x) <=> x = Head(q) \/ Has(Tail(q), x)
  <2>1. ASSUME Has(q, x) PROVE x = Head(q) \/ Has(Tail(q), x)
    <3>1. PICK i \in 1..Len(q) : q[i] = x
      BY <1>1, <2>1 DEF Has
    <3>2. CASE i = 1
      BY <1>1, <3>1, <3>2
    <3>3. CASE i # 1
      <4>1. i - 1 \in 1..(Len(q) - 1) /\ (i - 1) + 1 = i
        BY <1>1, <3>3
      <4> QED BY <1>1, <3>1, <4>1 DEF Has
    <3> QED BY <3>2, <3>3
  <2>2. ASSUME x = Head(q) PROVE Has(q, x)
    BY <1>1, <2>2 DEF Has
  <2>3. ASSUME Has(Tail(q), x) PROVE Has(q, x)
    <3>1. PICK i \in 1..(Len(q) - 1) : Tail(q)[i] = x
      BY <1>1, <2>3 DEF Has
    <3>2. i + 1 \in 1..Len(q) /\ q[i + 1] = x
      BY <1>1, <3>1
    <3> QED BY <1>1, <3>2 DEF Has
  <2> QED BY <2>1, <2>2, <2>3
<1> QED BY <1>1, <1>2

\* One message comes before another.
Before(q, x, y) == \E m \in DOMAIN q, n \in DOMAIN q : m < n /\ q[m] = x /\ q[n] = y

\* Both of two messages in a row are on their way.
LEMMA BeforeHas == \A q, x, y : Before(q, x, y) => Has(q, x) /\ Has(q, y)
BY DEF Before, Has

\* But for some, messages are on their way once.
OnceIn(q, R) == \A m \in DOMAIN q, n \in DOMAIN q : q[m] = q[n] /\ q[m] \notin R => m = n

\* What is sent comes after what is on its way.
LEMMA SentLast ==
  ASSUME NEW S, NEW q \in Seq(S), NEW e \in S, NEW R, OnceIn(q, R), e \in R \/ ~Has(q, e)
  PROVE  /\ Append(q, e) \in Seq(S) /\ OnceIn(Append(q, e), R)
         /\ \A x : Has(Append(q, e), x) <=> Has(q, x) \/ x = e
         /\ \A x, y : Before(Append(q, e), x, y) <=> Before(q, x, y) \/ (Has(q, x) /\ y = e)
<1>1. /\ Append(q, e) \in Seq(S) /\ Len(q) \in Nat
      /\ DOMAIN q = 1..Len(q) /\ DOMAIN Append(q, e) = 1..(Len(q) + 1)
      /\ \A i \in 1..Len(q) : Append(q, e)[i] = q[i]
      /\ Append(q, e)[Len(q) + 1] = e
  OBVIOUS
<1>2. \A x : Has(Append(q, e), x) <=> Has(q, x) \/ x = e
  BY HasAppend
<1>3. \A i \in 1..(Len(q) + 1) : i \in 1..Len(q) \/ i = Len(q) + 1
  BY <1>1
<1>4. \A i \in 1..Len(q) : i \in 1..(Len(q) + 1) /\ i < Len(q) + 1
  BY <1>1
<1>5. OnceIn(Append(q, e), R)
  <2> SUFFICES ASSUME NEW m \in 1..(Len(q) + 1), NEW n \in 1..(Len(q) + 1),
                      Append(q, e)[m] = Append(q, e)[n], Append(q, e)[m] \notin R
               PROVE  m = n
    BY <1>1 DEF OnceIn
  <2>1. CASE m \in 1..Len(q) /\ n \in 1..Len(q)
    BY <1>1, <2>1 DEF OnceIn
  <2>2. CASE m = Len(q) + 1 /\ n \in 1..Len(q)
    BY <1>1, <2>2 DEF Has
  <2>3. CASE n = Len(q) + 1 /\ m \in 1..Len(q)
    BY <1>1, <2>3 DEF Has
  <2> QED BY <1>3, <2>1, <2>2, <2>3
<1>6. ASSUME NEW x, NEW y, Before(Append(q, e), x, y)
      PROVE  Before(q, x, y) \/ (Has(q, x) /\ y = e)
  <2>1. PICK m \in 1..(Len(q) + 1), n \in 1..(Len(q) + 1) :
               m < n /\ Append(q, e)[m] = x /\ Append(q, e)[n] = y
    BY <1>1, <1>6 DEF Before
  <2>2. m \in 1..Len(q)
    BY <1>1, <2>1
  <2>3. CASE n \in 1..Len(q)
    BY <1>1, <2>1, <2>2, <2>3 DEF Before
  <2>4. CASE n = Len(q) + 1
    BY <1>1, <2>1, <2>2, <2>4 DEF Has
  <2> QED BY <1>3, <2>3, <2>4
<1>7. ASSUME NEW x, NEW y, Before(q, x, y) PROVE Before(Append(q, e), x, y)
  <2>1. PICK m \in 1..Len(q), n \in 1..Len(q) : m < n /\ q[m] = x /\ q[n] = y
    BY <1>1, <1>7 DEF Before
  <2> QED BY <1>1, <1>4, <2>1 DEF Before
<1>8. ASSUME NEW x, Has(q, x) PROVE Before(Append(q, e), x, e)
  <2>1. PICK m \in 1..Len(q) : q[m] = x
    BY <1>1, <1>8 DEF Has
  <2>2. Len(q) + 1 \in 1..(Len(q) + 1)
    BY <1>1
  <2> QED BY <1>1, <1>4, <2>1, <2>2 DEF Before
<1> QED BY <1>1, <1>2, <1>5, <1>6, <1>7, <1>8

\* The first is heard, before all the others.
LEMMA HeardFirst ==
  ASSUME NEW S, NEW q \in Seq(S), q # <<>>, NEW R, OnceIn(q, R)
  PROVE  /\ Tail(q) \in Seq(S) /\ Head(q) \in S /\ OnceIn(Tail(q), R)
         /\ \A x : Has(q, x) <=> x = Head(q) \/ Has(Tail(q), x)
         /\ Head(q) \notin R => ~Has(Tail(q), Head(q))
         /\ \A x, y : Before(Tail(q), x, y) => Before(q, x, y)
         /\ \A x, y : Before(q, x, y) => Has(Tail(q), y) /\ (x = Head(q) \/ Before(Tail(q), x, y))
         /\ \A y : Has(Tail(q), y) => Before(q, Head(q), y)
<1>1. /\ Tail(q) \in Seq(S) /\ Head(q) \in S /\ Head(q) = q[1]
      /\ Len(q) \in Nat /\ Len(q) >= 1
      /\ DOMAIN q = 1..Len(q) /\ DOMAIN Tail(q) = 1..(Len(q) - 1)
      /\ \A i \in 1..(Len(q) - 1) : Tail(q)[i] = q[i + 1]
  BY HeadTailProperties, LenProperties, EmptySeq
<1>2. \A x : Has(q, x) <=> x = Head(q) \/ Has(Tail(q), x)
  BY HasTail
<1>3. \A i \in 1..(Len(q) - 1) : i + 1 \in 1..Len(q) /\ i + 1 # 1
  BY <1>1
<1>4. \A i \in 1..Len(q) : i # 1 => i - 1 \in 1..(Len(q) - 1) /\ Tail(q)[i - 1] = q[i]
  <2> TAKE i \in 1..Len(q)
  <2> HAVE i # 1
  <2>1. i - 1 \in 1..(Len(q) - 1) /\ (i - 1) + 1 = i
    BY <1>1
  <2> QED BY <1>1, <2>1
<1>5. OnceIn(Tail(q), R)
  <2> SUFFICES ASSUME NEW m \in 1..(Len(q) - 1), NEW n \in 1..(Len(q) - 1),
                      q[m + 1] = q[n + 1], q[m + 1] \notin R
               PROVE  m = n
    BY <1>1 DEF OnceIn
  <2>1. m + 1 = n + 1
    BY <1>1, <1>3 DEF OnceIn
  <2> QED BY <2>1
<1>6. ASSUME Head(q) \notin R, Has(Tail(q), Head(q)) PROVE FALSE
  <2>1. PICK i \in 1..(Len(q) - 1) : q[i + 1] = q[1]
    BY <1>1, <1>6 DEF Has
  <2>2. i + 1 \in DOMAIN q /\ 1 \in DOMAIN q /\ i + 1 # 1
    BY <1>1, <1>3
  <2> QED BY <1>1, <1>6, <2>1, <2>2 DEF OnceIn
<1>7. ASSUME NEW x, NEW y, Before(Tail(q), x, y) PROVE Before(q, x, y)
  <2>1. PICK m \in 1..(Len(q) - 1), n \in 1..(Len(q) - 1) :
               m < n /\ q[m + 1] = x /\ q[n + 1] = y
    BY <1>1, <1>7 DEF Before
  <2>2. m + 1 < n + 1
    BY <2>1
  <2> QED BY <1>1, <1>3, <2>1, <2>2 DEF Before
<1>8. ASSUME NEW x, NEW y, Before(q, x, y)
      PROVE  Has(Tail(q), y) /\ (x = Head(q) \/ Before(Tail(q), x, y))
  <2>1. PICK m \in 1..Len(q), n \in 1..Len(q) : m < n /\ q[m] = x /\ q[n] = y
    BY <1>1, <1>8 DEF Before
  <2>2. n # 1 /\ n - 1 \in 1..(Len(q) - 1) /\ Tail(q)[n - 1] = y
    BY <1>1, <1>4, <2>1
  <2>3. Has(Tail(q), y)
    BY <1>1, <2>2 DEF Has
  <2>4. CASE m = 1
    BY <1>1, <2>1, <2>3, <2>4
  <2>5. CASE m # 1
    <3>1. m - 1 \in 1..(Len(q) - 1) /\ Tail(q)[m - 1] = x /\ m - 1 < n - 1
      BY <1>1, <1>4, <2>1, <2>5
    <3> QED BY <1>1, <2>2, <2>3, <3>1 DEF Before
  <2> QED BY <2>4, <2>5
<1>9. ASSUME NEW y, Has(Tail(q), y) PROVE Before(q, Head(q), y)
  <2>1. PICK i \in 1..(Len(q) - 1) : q[i + 1] = y
    BY <1>1, <1>9 DEF Has
  <2>2. 1 \in 1..Len(q) /\ i + 1 \in 1..Len(q) /\ 1 < i + 1
    BY <1>1, <1>3
  <2> QED BY <1>1, <2>1, <2>2 DEF Before
<1> QED BY <1>1, <1>2, <1>5, <1>6, <1>7, <1>8, <1>9

\* A set in some order.
LEMMA SetInOrder ==
  ASSUME NEW S, IsFiniteSet(S)
  PROVE  SetToSeq(S) \in Seq(S) /\ \A x : Has(SetToSeq(S), x) <=> x \in S
<1> DEFINE n == Cardinality(S)
           f == SetToSeq(S)
<1>1. n \in Nat /\ ExistsBijection(1..n, S)
  BY FS_CardinalityType
<1>2. PICK g \in Bijection(1..n, S) : TRUE
  BY <1>1 DEF ExistsBijection
<1>3. g \in [1..n -> S] /\ \A a, b \in DOMAIN g : g[a] = g[b] => a = b
  BY <1>2 DEF Bijection, Injection, IsInjective
<1>4. f \in [1..n -> S] /\ \A a, b \in DOMAIN f : f[a] = f[b] => a = b
  BY <1>3 DEF SetToSeq, IsInjective
<1>5. f \in Injection(1..n, S)
  BY <1>4 DEF Injection, IsInjective
<1>6. IsFiniteSet(1..n) /\ Cardinality(1..n) = n
  BY <1>1, FS_Interval
<1>7. f \in Surjection(1..n, S)
  BY <1>5, <1>6, FS_Injection
<1>8. f \in Seq(S)
  BY <1>1, <1>4
<1>9. ASSUME NEW x PROVE Has(f, x) <=> x \in S
  BY <1>4, <1>7 DEF Has, Surjection
<1> QED BY <1>8, <1>9

(***************************************************************************)
(* ExecSessions: shells and their tabs                                     *)
(***************************************************************************)

Letters == {"id", "failed", "exit"} \X Shells

\* What is known of a run's socket, and of the cluster its shell is on: one that
\* connects while no switch is under way will be on the cluster of its context.
RunOK(r) ==
  /\ wire[r] \in {"connecting", "open"} <=> r \in sockets
  /\ wire[r] # "none" => r = mounted \/ r \in execCancelled
  /\ wire[r] = "connecting" /\ r \notin midway => execSwitch = "none" /\ runFor[r] = serves
  /\ wire[r] = "open" => runsOn[r] = runFor[r] \/ r \in midway

\* A shell is open whose id is on its way, or whose tab has it where the clean-up will
\* look for it.
HeldOK(r) ==
  wire[r] = "open" /\ r \notin overwritten =>
    Has(mail, <<"id", r>>) \/ (r = mounted /\ r \in attached /\ r = ptyRef)

\* Letters are of runs that have begun.
LettersOK ==
  \A k \in {"id", "failed", "exit"}, r \in Shells : Has(mail, <<k, r>>) => wire[r] # "none"

ExecInv ==
  /\ ExecTypeOK /\ IsFiniteSet(sockets) /\ LettersOK
  /\ execSwitch = "none" => selected = serves
  /\ mounted # NoShell => mounted \in own
  /\ \A r \in Shells : RunOK(r) /\ HeldOK(r)

\* With no letter on its way every open shell is held; nothing else is needed.
LEMMA ExecInvTells == ExecInv => ShellsTrue
<1> SUFFICES ASSUME ExecInv PROVE ShellsTrue
  OBVIOUS
<1>1. ShellsHaveTabs
  <2>1. mail = <<>> => \A x : ~Has(mail, x)
    BY DEF Has
  <2> QED BY <2>1 DEF ExecInv, HeldOK, ShellsHaveTabs
<1>2. ShellsOnTheirCluster
  BY DEF ExecInv, ExecTypeOK, RunOK, ShellsOnTheirCluster
<1> QED BY <1>1, <1>2 DEF ExecInv, ShellsTrue

\* Initially there is no shell.
LEMMA ExecStarts == ExecInit => ExecInv
<1> SUFFICES ASSUME ExecInit PROVE ExecInv
  OBVIOUS
<1>1. ExecTypeOK
  BY ExecAssumption DEF ExecInit, ExecTypeOK
<1>2. IsFiniteSet(sockets)
  BY FS_EmptySet DEF ExecInit
<1>3. \A x : ~Has(mail, x)
  BY DEF ExecInit, Has
<1> QED BY <1>1, <1>2, <1>3, ExecAssumption DEF ExecInit, ExecInv, LettersOK, RunOK, HeldOK

\* A shell connects, and its id is sent.
LEMMA ConnectKeeps ==
  ASSUME ExecInv, NEW r \in Shells, Connect(r) PROVE ExecInv'
<1> USE ExecAssumption DEF ExecInv
<1>0. mail' \in Seq(Letters) /\ \A x : Has(mail', x) <=> Has(mail, x) \/ x = <<"id", r>>
  <2>1. mail \in Seq(Letters) /\ <<"id", r>> \in Letters /\ mail' = Append(mail, <<"id", r>>)
    BY DEF ExecTypeOK, Letters, Connect
  <2> QED BY <2>1, HasAppend
<1>1. ExecTypeOK'
  BY <1>0 DEF ExecTypeOK, Letters, Connect, switchPart, tabPart, socketPart
<1>2. IsFiniteSet(sockets)'
  BY DEF Connect, socketPart
<1>3. LettersOK'
  BY <1>0 DEF LettersOK, ExecTypeOK, Letters, Connect, socketPart
<1>4. (execSwitch = "none" => selected = serves)'
  BY DEF Connect, switchPart
<1>5. (mounted # NoShell => mounted \in own)'
  BY DEF Connect, tabPart
<1>6. \A s \in Shells : RunOK(s)'
  BY DEF RunOK, ExecTypeOK, Connect, switchPart, tabPart, socketPart
<1>7. \A s \in Shells : HeldOK(s)'
  BY <1>0 DEF HeldOK, RunOK, ExecTypeOK, Letters, Connect, tabPart, socketPart
<1> QED BY <1>1, <1>2, <1>3, <1>4, <1>5, <1>6, <1>7

\* A connection fails.
LEMMA ConnectFailsKeeps ==
  ASSUME ExecInv, NEW r \in Shells, ConnectFails(r) PROVE ExecInv'
<1> USE ExecAssumption DEF ExecInv
<1>0. /\ mail' \in Seq(Letters)
      /\ \A x : Has(mail', x) <=> Has(mail, x) \/ x = <<"failed", r>> \/ x = <<"exit", r>>
  <2>1. <<"failed", r>> \in Letters /\ <<"exit", r>> \in Letters
    BY DEF Letters
  <2>2. mail' = mail \o <<<<"failed", r>>, <<"exit", r>>>>
    BY DEF ConnectFails
  <2>3. mail \in Seq(Letters)
    BY DEF ExecTypeOK, Letters
  <2> DEFINE failed == <<"failed", r>>
             exits == <<"exit", r>>
  <2>4. failed \in Letters /\ exits \in Letters /\ mail' = mail \o <<failed, exits>>
    BY <2>1, <2>2
  <2> HIDE DEF failed, exits, ExecInv
  <2>5. /\ mail \o <<failed, exits>> \in Seq(Letters)
        /\ \A x : Has(mail \o <<failed, exits>>, x) <=> Has(mail, x) \/ x = failed \/ x = exits
    BY <2>3, <2>4, HasPair
  <2>6. mail' \in Seq(Letters) /\ \A x : Has(mail', x) <=> Has(mail, x) \/ x = failed \/ x = exits
    BY <2>4, <2>5
  <2> QED BY <2>6 DEF failed, exits
<1>1. ExecTypeOK'
  BY <1>0 DEF ExecTypeOK, Letters, ConnectFails, switchPart, tabPart, socketPart
<1>2. IsFiniteSet(sockets)'
  BY FS_RemoveElement DEF ConnectFails, socketPart
<1>3. LettersOK'
  BY <1>0 DEF LettersOK, ExecTypeOK, Letters, ConnectFails, socketPart
<1>4. (execSwitch = "none" => selected = serves)'
  BY DEF ConnectFails, switchPart
<1>5. (mounted # NoShell => mounted \in own)'
  BY DEF ConnectFails, tabPart
<1>6. \A s \in Shells : RunOK(s)'
  BY DEF RunOK, ExecTypeOK, ConnectFails, switchPart, tabPart, socketPart
<1>7. \A s \in Shells : HeldOK(s)'
  BY <1>0 DEF HeldOK, RunOK, ExecTypeOK, Letters, ConnectFails, tabPart, socketPart
<1> QED BY <1>1, <1>2, <1>3, <1>4, <1>5, <1>6, <1>7

\* A shell ends.
LEMMA ShellEndsKeeps ==
  ASSUME ExecInv, NEW r \in Shells, ShellEnds(r) PROVE ExecInv'
<1> USE ExecAssumption DEF ExecInv
<1>0. mail' \in Seq(Letters) /\ \A x : Has(mail', x) <=> Has(mail, x) \/ x = <<"exit", r>>
  <2>1. mail \in Seq(Letters) /\ <<"exit", r>> \in Letters /\ mail' = Append(mail, <<"exit",
     r>>)
    BY DEF ExecTypeOK, Letters, ShellEnds
  <2> QED BY <2>1, HasAppend
<1>1. ExecTypeOK'
  BY <1>0 DEF ExecTypeOK, Letters, ShellEnds, switchPart, tabPart, socketPart
<1>2. IsFiniteSet(sockets)'
  BY FS_RemoveElement DEF ShellEnds, socketPart
<1>3. LettersOK'
  BY <1>0 DEF LettersOK, ExecTypeOK, Letters, ShellEnds, socketPart
<1>4. (execSwitch = "none" => selected = serves)'
  BY DEF ShellEnds, switchPart
<1>5. (mounted # NoShell => mounted \in own)'
  BY DEF ShellEnds, tabPart
<1>6. \A s \in Shells : RunOK(s)'
  BY DEF RunOK, ExecTypeOK, ShellEnds, switchPart, tabPart, socketPart
<1>7. \A s \in Shells : HeldOK(s)'
  BY <1>0 DEF HeldOK, RunOK, ExecTypeOK, Letters, ShellEnds, tabPart, socketPart
<1> QED BY <1>1, <1>2, <1>3, <1>4, <1>5, <1>6, <1>7

\* A tab is opened.
LEMMA OpenExecKeeps ==
  ASSUME ExecInv, OpenExec PROVE ExecInv'
<1> USE ExecAssumption DEF ExecInv
<1>1. ExecTypeOK'
  BY DEF ExecTypeOK, OpenExec, switchPart, tabPart, socketPart
<1>2. IsFiniteSet(sockets)'
  BY DEF OpenExec, socketPart
<1>3. LettersOK'
  BY DEF LettersOK, ExecTypeOK, OpenExec, socketPart
<1>4. (execSwitch = "none" => selected = serves)'
  BY DEF OpenExec, switchPart
<1>5. (mounted # NoShell => mounted \in own)'
  BY DEF OpenExec, tabPart
<1>6. \A s \in Shells : RunOK(s)'
  BY DEF RunOK, ExecTypeOK, OpenExec, switchPart, tabPart, socketPart
<1>7. \A s \in Shells : HeldOK(s)'
  BY DEF HeldOK, RunOK, ExecTypeOK, OpenExec, tabPart, socketPart
<1> QED BY <1>1, <1>2, <1>3, <1>4, <1>5, <1>6, <1>7

\* The effect starts a shell, after the clean-up of the one before.
LEMMA StartShellKeeps ==
  ASSUME ExecInv, NEW r \in Shells, StartShell(r) PROVE ExecInv'
<1> USE ExecAssumption DEF ExecInv
<1>1. ExecTypeOK'
  BY DEF ExecTypeOK, StartShell, switchPart, tabPart, socketPart
<1>2. IsFiniteSet(sockets)'
  BY FS_RemoveElement, FS_AddElement DEF StartShell, socketPart
<1>3. LettersOK'
  BY DEF LettersOK, ExecTypeOK, StartShell, socketPart
<1>4. (execSwitch = "none" => selected = serves)'
  BY DEF StartShell, switchPart
<1>5. (mounted # NoShell => mounted \in own)'
  BY DEF StartShell, tabPart
<1>6. \A s \in Shells : RunOK(s)'
  BY DEF RunOK, ExecTypeOK, StartShell, switchPart, tabPart, socketPart
<1>7. \A s \in Shells : HeldOK(s)'
  BY DEF HeldOK, RunOK, ExecTypeOK, StartShell, tabPart, socketPart
<1> QED BY <1>1, <1>2, <1>3, <1>4, <1>5, <1>6, <1>7

\* The tab is taken away.
LEMMA UnmountKeeps ==
  ASSUME ExecInv, Unmount PROVE ExecInv'
<1> USE ExecAssumption DEF ExecInv
<1>1. ExecTypeOK'
  BY DEF ExecTypeOK, Unmount, CleanUp, Kill, switchPart, tabPart, socketPart
<1>2. IsFiniteSet(sockets)'
  BY FS_Difference DEF Unmount, CleanUp, Kill, socketPart
<1>3. LettersOK'
  BY DEF LettersOK, ExecTypeOK, Unmount, CleanUp, Kill, socketPart
<1>4. (execSwitch = "none" => selected = serves)'
  BY DEF Unmount, switchPart
<1>5. (mounted # NoShell => mounted \in own)'
  BY DEF Unmount, tabPart
<1>6. \A s \in Shells : RunOK(s)'
  BY DEF RunOK, ExecTypeOK, Unmount, CleanUp, Kill, switchPart, tabPart, socketPart
<1>7. \A s \in Shells : HeldOK(s)'
  BY DEF HeldOK, RunOK, ExecTypeOK, Unmount, CleanUp, Kill, tabPart, socketPart
<1> QED BY <1>1, <1>2, <1>3, <1>4, <1>5, <1>6, <1>7

\* The tab is closed.
LEMMA CloseTabKeeps ==
  ASSUME ExecInv, CloseTab PROVE ExecInv'
<1> USE ExecAssumption DEF ExecInv
<1>1. ExecTypeOK'
  BY DEF ExecTypeOK, CloseTab, Kill, switchPart, tabPart, socketPart
<1>2. IsFiniteSet(sockets)'
  BY FS_Difference DEF CloseTab, Kill, socketPart
<1>3. LettersOK'
  BY DEF LettersOK, ExecTypeOK, CloseTab, Kill, socketPart
<1>4. (execSwitch = "none" => selected = serves)'
  BY DEF CloseTab, switchPart
<1>5. (mounted # NoShell => mounted \in own)'
  BY DEF CloseTab, tabPart
<1>6. \A s \in Shells : RunOK(s)'
  BY DEF RunOK, ExecTypeOK, CloseTab, Kill, switchPart, tabPart, socketPart
<1>7. \A s \in Shells : HeldOK(s)'
  BY DEF HeldOK, RunOK, ExecTypeOK, CloseTab, Kill, tabPart, socketPart
<1> QED BY <1>1, <1>2, <1>3, <1>4, <1>5, <1>6, <1>7

\* The id of a run is heard.
LEMMA HearIdKeeps ==
  ASSUME ExecInv, NEW r \in Shells, HearId(r) PROVE ExecInv'
<1> USE ExecAssumption DEF ExecInv
<1>0. /\ mail' \in Seq(Letters) /\ Head(mail) \in Letters
      /\ \A x : Has(mail, x) <=> x = Head(mail) \/ Has(mail', x)
  BY HasTail DEF ExecTypeOK, Letters, HearId
<1>1. ExecTypeOK'
  BY <1>0 DEF ExecTypeOK, HearId, Kill, Letters, switchPart, tabPart, socketPart
<1>2. IsFiniteSet(sockets)'
  <2>1. sockets' = sockets \ {r} \/ sockets' = sockets
    BY DEF HearId, Kill
  <2> QED BY <2>1, FS_Difference
<1>3. LettersOK'
  BY <1>0 DEF LettersOK, ExecTypeOK, HearId, Kill, Letters, socketPart
<1>4. (execSwitch = "none" => selected = serves)'
  BY DEF HearId, switchPart
<1>5. (mounted # NoShell => mounted \in own)'
  BY DEF HearId, tabPart
<1>6. \A s \in Shells : RunOK(s)'
  BY DEF RunOK, ExecTypeOK, HearId, Kill, switchPart, tabPart, socketPart
<1>7. \A s \in Shells : HeldOK(s)'
  <2> SUFFICES ASSUME NEW s \in Shells, wire'[s] = "open",
     s \notin overwritten' PROVE HeldOK(s)'
    BY DEF HeldOK
  <2>1. wire[s] = "open" /\ s \notin overwritten /\ UNCHANGED <<mounted, own, execCancelled>>
    BY DEF HearId, Kill, ExecTypeOK
  <2>2. CASE s = r
    <3>1. r \notin execCancelled
      BY <2>1, <2>2 DEF HearId, Kill, RunOK, ExecTypeOK
    <3>2. r = mounted /\ r \in own
      BY <2>1, <2>2, <3>1 DEF RunOK, ExecTypeOK
    <3>3. ptyRef' = r /\ r \in attached'
      BY <3>1, <3>2 DEF HearId
    <3> QED BY <2>1, <2>2, <3>2, <3>3 DEF HeldOK
  <2>3. CASE s # r
    <3>1. Has(mail, <<"id", s>>) => Has(mail', <<"id", s>>)
      BY <1>0, <2>3 DEF HearId
    <3>2. ASSUME s = mounted, s \in attached, s = ptyRef
          PROVE  s = mounted' /\ s \in attached' /\ s = ptyRef'
      <4>1. wire[r] # "none"
        BY <1>0 DEF LettersOK, HearId
      <4>2. r \in execCancelled
        BY <2>3, <3>2, <4>1 DEF RunOK, ExecTypeOK
      <4>3. r \notin own
        BY <2>1, <3>2, <4>2 DEF HearId, ExecTypeOK
      <4> QED BY <2>1, <3>2, <4>2, <4>3 DEF HearId
    <3> QED BY <2>1, <3>1, <3>2 DEF HeldOK
  <2> QED BY <2>2, <2>3
<1> QED BY <1>1, <1>2, <1>3, <1>4, <1>5, <1>6, <1>7

\* A failure is heard.
LEMMA HearFailureKeeps ==
  ASSUME ExecInv, NEW r \in Shells, HearFailure(r) PROVE ExecInv'
<1> USE ExecAssumption DEF ExecInv
<1>0. /\ mail' \in Seq(Letters) /\ Head(mail) \in Letters
      /\ \A x : Has(mail, x) <=> x = Head(mail) \/ Has(mail', x)
  BY HasTail DEF ExecTypeOK, Letters, HearFailure
<1>1. ExecTypeOK'
  BY <1>0 DEF ExecTypeOK, HearFailure, Letters, switchPart, tabPart, socketPart
<1>2. IsFiniteSet(sockets)'
  BY DEF HearFailure, socketPart
<1>3. LettersOK'
  BY <1>0 DEF LettersOK, ExecTypeOK, HearFailure, Letters, socketPart
<1>4. (execSwitch = "none" => selected = serves)'
  BY DEF HearFailure, switchPart
<1>5. (mounted # NoShell => mounted \in own)'
  BY DEF HearFailure, tabPart
<1>6. \A s \in Shells : RunOK(s)'
  BY DEF RunOK, ExecTypeOK, HearFailure, switchPart, tabPart, socketPart
<1>7. \A s \in Shells : HeldOK(s)'
  BY <1>0 DEF HeldOK, RunOK, ExecTypeOK, HearFailure, Letters, tabPart, socketPart
<1> QED BY <1>1, <1>2, <1>3, <1>4, <1>5, <1>6, <1>7

\* An exit is heard.
LEMMA HearExitKeeps ==
  ASSUME ExecInv, NEW r \in Shells, HearExit(r) PROVE ExecInv'
<1> USE ExecAssumption DEF ExecInv
<1>0. /\ mail' \in Seq(Letters) /\ Head(mail) \in Letters
      /\ \A x : Has(mail, x) <=> x = Head(mail) \/ Has(mail', x)
  BY HasTail DEF ExecTypeOK, Letters, HearExit
<1>1. ExecTypeOK'
  BY <1>0 DEF ExecTypeOK, HearExit, Letters, switchPart, tabPart, socketPart
<1>2. IsFiniteSet(sockets)'
  BY DEF HearExit, socketPart
<1>3. LettersOK'
  BY <1>0 DEF LettersOK, ExecTypeOK, HearExit, Letters, socketPart
<1>4. (execSwitch = "none" => selected = serves)'
  BY DEF HearExit, switchPart
<1>5. (mounted # NoShell => mounted \in own)'
  BY DEF HearExit, tabPart
<1>6. \A s \in Shells : RunOK(s)'
  BY DEF RunOK, ExecTypeOK, HearExit, switchPart, tabPart, socketPart
<1>7. \A s \in Shells : HeldOK(s)'
  BY <1>0 DEF HeldOK, RunOK, ExecTypeOK, HearExit, Letters, tabPart, socketPart
<1> QED BY <1>1, <1>2, <1>3, <1>4, <1>5, <1>6, <1>7

\* The context is selected, and every socket closed.
LEMMA SelectKeeps ==
  ASSUME ExecInv, SelectContext PROVE ExecInv'
<1> USE ExecAssumption DEF ExecInv
<1>0. /\ mail' \in Seq(Letters)
      /\ \A x : Has(mail', x) <=> Has(mail, x) \/ x \in {<<"exit", r>> : r \in sockets}
  <2> DEFINE S == {<<"exit", r>> : r \in sockets}
             f == [r \in sockets |-> <<"exit", r>>]
  <2>1. f \in Surjection(sockets, S)
    BY DEF Surjection
  <2>2. IsFiniteSet(S)
    BY <2>1, FS_Surjection
  <2>3. SetToSeq(S) \in Seq(S) /\ \A x : Has(SetToSeq(S), x) <=> x \in S
    BY <2>2, SetInOrder
  <2>4. S \subseteq Letters
    BY DEF ExecTypeOK, Letters
  <2>5. SetToSeq(S) \in Seq(Letters)
    BY <2>3, <2>4
  <2>6. mail' = mail \o SetToSeq(S)
    BY DEF SelectContext
  <2>7. mail \in Seq(Letters)
    BY DEF ExecTypeOK, Letters
  <2> HIDE DEF S, f
  <2>8. /\ mail \o SetToSeq(S) \in Seq(Letters)
        /\ \A x : Has(mail \o SetToSeq(S), x) <=> Has(mail, x) \/ Has(SetToSeq(S), x)
    BY <2>5, <2>7, HasConcat
  <2> QED BY <2>3, <2>6, <2>8 DEF S
<1>1. ExecTypeOK'
  BY <1>0 DEF ExecTypeOK, SelectContext, Kill, Letters, switchPart, tabPart, socketPart
<1>2. IsFiniteSet(sockets)'
  BY FS_Difference DEF SelectContext, Kill, socketPart
<1>3. LettersOK'
  <2>1. \A r \in Shells : wire[r] # "none" => wire'[r] # "none"
    BY DEF SelectContext, Kill, ExecTypeOK
  <2>2. \A r \in sockets : r \in Shells /\ wire[r] # "none"
    BY DEF ExecTypeOK, RunOK
  <2> SUFFICES ASSUME NEW k \in {"id", "failed", "exit"}, NEW r \in Shells, Has(mail', <<k, r>>)
               PROVE  wire'[r] # "none"
    BY DEF LettersOK
  <2>3. CASE Has(mail, <<k, r>>)
    BY <2>1, <2>3 DEF LettersOK
  <2>4. CASE <<k, r>> \in {<<"exit", s>> : s \in sockets}
    BY <2>1, <2>2, <2>4
  <2> QED BY <1>0, <2>3, <2>4
<1>4. (execSwitch = "none" => selected = serves)'
  BY DEF SelectContext, switchPart
<1>5. (mounted # NoShell => mounted \in own)'
  BY DEF SelectContext, tabPart
<1>6. \A s \in Shells : RunOK(s)'
  BY DEF RunOK, ExecTypeOK, SelectContext, Kill, switchPart, tabPart, socketPart
<1>7. \A s \in Shells : HeldOK(s)'
  BY <1>0 DEF HeldOK, RunOK, ExecTypeOK, SelectContext, Kill, Letters, tabPart, socketPart
<1> QED BY <1>1, <1>2, <1>3, <1>4, <1>5, <1>6, <1>7

\* The sessions are closed.
LEMMA CloseSessionsKeeps ==
  ASSUME ExecInv, CloseSessions PROVE ExecInv'
<1> USE ExecAssumption DEF ExecInv
<1>1. ExecTypeOK'
  BY DEF ExecTypeOK, CloseSessions, Kill, switchPart, tabPart, socketPart
<1>2. IsFiniteSet(sockets)'
  BY FS_Difference DEF CloseSessions, Kill, socketPart
<1>3. LettersOK'
  BY DEF LettersOK, ExecTypeOK, CloseSessions, Kill, socketPart
<1>4. (execSwitch = "none" => selected = serves)'
  BY DEF CloseSessions, switchPart
<1>5. (mounted # NoShell => mounted \in own)'
  BY DEF CloseSessions, tabPart
<1>6. \A s \in Shells : RunOK(s)'
  BY DEF RunOK, ExecTypeOK, CloseSessions, Kill, switchPart, tabPart, socketPart
<1>7. \A s \in Shells : HeldOK(s)'
  BY DEF HeldOK, RunOK, ExecTypeOK, CloseSessions, Kill, tabPart, socketPart
<1> QED BY <1>1, <1>2, <1>3, <1>4, <1>5, <1>6, <1>7

\* The sidecar follows.
LEMMA ServedShellsKeep ==
  ASSUME ExecInv, SwitchServed PROVE ExecInv'
<1> USE ExecAssumption DEF ExecInv
<1>1. ExecTypeOK'
  BY DEF ExecTypeOK, SwitchServed, switchPart, tabPart, socketPart
<1>2. IsFiniteSet(sockets)'
  BY DEF SwitchServed, socketPart
<1>3. LettersOK'
  BY DEF LettersOK, ExecTypeOK, SwitchServed, socketPart
<1>4. (execSwitch = "none" => selected = serves)'
  BY DEF SwitchServed, switchPart
<1>5. (mounted # NoShell => mounted \in own)'
  BY DEF SwitchServed, tabPart
<1>6. \A s \in Shells : RunOK(s)'
  BY DEF RunOK, ExecTypeOK, SwitchServed, switchPart, tabPart, socketPart
<1>7. \A s \in Shells : HeldOK(s)'
  BY DEF HeldOK, RunOK, ExecTypeOK, SwitchServed, tabPart, socketPart
<1> QED BY <1>1, <1>2, <1>3, <1>4, <1>5, <1>6, <1>7

\* The sidecar refuses.
LEMMA RefusedKeeps ==
  ASSUME ExecInv, Refused PROVE ExecInv'
<1> USE ExecAssumption DEF ExecInv
<1>1. ExecTypeOK'
  BY DEF ExecTypeOK, Refused, switchPart, tabPart, socketPart
<1>2. IsFiniteSet(sockets)'
  BY DEF Refused, socketPart
<1>3. LettersOK'
  BY DEF LettersOK, ExecTypeOK, Refused, socketPart
<1>4. (execSwitch = "none" => selected = serves)'
  BY DEF Refused, switchPart
<1>5. (mounted # NoShell => mounted \in own)'
  BY DEF Refused, tabPart
<1>6. \A s \in Shells : RunOK(s)'
  BY DEF RunOK, ExecTypeOK, Refused, switchPart, tabPart, socketPart
<1>7. \A s \in Shells : HeldOK(s)'
  BY DEF HeldOK, RunOK, ExecTypeOK, Refused, tabPart, socketPart
<1> QED BY <1>1, <1>2, <1>3, <1>4, <1>5, <1>6, <1>7

\* No shell outlives its tab, unless the tab lost its id to that of a cancelled run, and a
\* terminal is on the cluster it is labelled with, unless a switch was under way.
THEOREM ShellsHold == ExecSpec => []ShellsTrue
<1>1. ExecInv /\ [ExecNext]_execVars => ExecInv'
  <2> SUFFICES ASSUME ExecInv, [ExecNext]_execVars PROVE ExecInv'
    OBVIOUS
  <2>1. CASE UNCHANGED execVars
    BY <2>1 DEF execVars, ExecInv, ExecTypeOK, LettersOK, RunOK, HeldOK
  <2>2. ASSUME NEW r \in Shells,
               \/ StartShell(r) \/ Connect(r) \/ ConnectFails(r) \/ ShellEnds(r)
               \/ HearId(r) \/ HearFailure(r) \/ HearExit(r)
        PROVE  ExecInv'
    BY <2>2, StartShellKeeps, ConnectKeeps, ConnectFailsKeeps, ShellEndsKeeps, HearIdKeeps,
       HearFailureKeeps, HearExitKeeps
  <2> QED
    BY <2>1, <2>2, OpenExecKeeps, UnmountKeeps, CloseTabKeeps, SelectKeeps, CloseSessionsKeeps,
       ServedShellsKeep, RefusedKeeps DEF ExecNext
<1> QED
  BY <1>1, ExecStarts, ExecInvTells, PTL DEF ExecSpec

(***************************************************************************)
(* LogStreams: what the log view shows and hears                           *)
(***************************************************************************)

ReplyTo(c) == <<"reply", c>>
End(i) == <<"end", i>>
Told(k) == <<"stopped", k>>
LogEnds == {"end"} \X LogIds
LogLetters == ({"reply"} \X LogCalls) \cup LogEnds \cup ({"stopped"} \X Cleaners)

\* The messages are what they are and can be told apart.
LEMMA LettersDiffer ==
  /\ \A c, i : ReplyTo(c) # End(i) /\ End(i) # ReplyTo(c)
  /\ \A c, k : ReplyTo(c) # Told(k) /\ Told(k) # ReplyTo(c)
  /\ \A i, k : End(i) # Told(k) /\ Told(k) # End(i)
  /\ \A c, d : ReplyTo(c) = ReplyTo(d) => c = d
  /\ \A i, j : End(i) = End(j) => i = j
  /\ \A k, l : Told(k) = Told(l) => k = l
  /\ \A c \in LogCalls : ReplyTo(c) \in LogLetters
  /\ \A i \in LogIds : End(i) \in LogLetters
  /\ \A k \in Cleaners : Told(k) \in LogLetters
  /\ \A c : ReplyTo(c) \notin LogEnds
  /\ \A i \in LogIds : End(i) \in LogEnds
  /\ \A k : Told(k) \notin LogEnds
<1>1. \A c, i : ReplyTo(c) # End(i) /\ End(i) # ReplyTo(c)
  BY DEF ReplyTo, End
<1>2. \A c, k : ReplyTo(c) # Told(k) /\ Told(k) # ReplyTo(c)
  BY DEF ReplyTo, Told
<1>3. \A i, k : End(i) # Told(k) /\ Told(k) # End(i)
  BY DEF End, Told
<1>4. \A c, d : ReplyTo(c) = ReplyTo(d) => c = d
  BY DEF ReplyTo
<1>5. \A i, j : End(i) = End(j) => i = j
  BY DEF End
<1>6. \A k, l : Told(k) = Told(l) => k = l
  BY DEF Told
<1>7. \A c \in LogCalls : ReplyTo(c) \in LogLetters
  BY DEF ReplyTo, LogLetters
<1>8. \A i \in LogIds : End(i) \in LogLetters
  BY DEF End, LogLetters, LogEnds
<1>9. \A k \in Cleaners : Told(k) \in LogLetters
  BY DEF Told, LogLetters
<1>10. \A c : ReplyTo(c) \notin LogEnds
  BY DEF ReplyTo, LogEnds
<1>11. \A i \in LogIds : End(i) \in LogEnds
  BY DEF End, LogEnds
<1>12. \A k : Told(k) \notin LogEnds
  BY DEF Told, LogEnds
<1> QED BY <1>1, <1>2, <1>3, <1>4, <1>5, <1>6, <1>7, <1>8, <1>9, <1>10, <1>11, <1>12

CleanerStates ==
  [kind: {"idle", "due", "context", "clear", "stop", "removed", "done"}, left: Seq(LogIds)]
\* The cleaners that have a stop under way.
Active == {"context", "clear", "stop", "removed"}

\* A call that awaits its reply is the one its start's loop is at.
Pending(c) == Looping(c[1]) /\ c = <<c[1], LogPods[startAt[c[1]]]>>

\* Messages are well formed; a reply is on its way for each call that awaits one.
MailOK ==
  /\ inbox \in Seq(LogLetters) /\ OnceIn(inbox, LogEnds)
  /\ \A c \in LogCalls : Has(inbox, ReplyTo(c)) <=> Pending(c)

\* A call that was answered is of a pod the loop has passed; every other that hears or
\* has a socket awaits its reply.
CallsOK ==
  /\ \A c \in resolved : \E n \in DOMAIN LogPods : LogPods[n] = c[2] /\ n < startAt[c[1]]
  /\ \A c \in hears : c \in resolved \/ Pending(c)
  /\ \A i \in LogIds : socket[i] # NoId =>
       (socket[i] \in resolved \/ Pending(socket[i])) /\ Id(socket[i]) = i

\* The ends on their way were sent before a call's socket opened; whoever has no socket
\* any more will hear of it, or was silenced.
EndsOK ==
  /\ \A i \in LogIds : socket[i] # NoId =>
       /\ socket[i] \in resolved => ~Has(inbox, End(i))
       /\ ~Before(inbox, ReplyTo(socket[i]), End(i))
  /\ \A c \in hears :
       \/ socket[Id(c)] = c \/ c \in silenced
       \/ c \in resolved /\ Has(inbox, End(Id(c)))
       \/ Before(inbox, ReplyTo(c), End(Id(c)))

\* A cleaner has streams to stop while one of its stops is under way.
CleanersOK ==
  /\ cleaner \in [Cleaners -> CleanerStates]
  /\ \A k \in Cleaners :
       /\ Has(inbox, Told(k)) => cleaner[k].kind \in Active
       /\ cleaner[k].kind \in Active <=> cleaner[k].left # <<>>
       /\ cleaner[k].kind = "removed" => Tail(cleaner[k].left) = <<>>

\* The reply of a start's loop will be kept.
Keeps(s) == Looping(s) /\ Kept(s)
InList(i) == logIds[i[2]] = i[1]
\* A cleaner has yet to stop a stream.
ToStop(k, i) == cleaner[k].left # <<>> /\ Has(Tail(cleaner[k].left), i)

\* What will be kept is of the view that streams, unless a change of context has yet to
\* reach it.
KeepsOK(s) ==
  Keeps(s) =>
    /\ isStreaming
    /\ started[s] = logContext \/ \E k \in Cleaners : cleaner[k].kind \in {"due", "context"}
    /\ \A k \in Cleaners : cleaner[k].kind # "stop"

\* A socket's call awaits its reply, or its stream is shown, or will be stopped.
SocketOK(i) ==
  socket[i] # NoId =>
    \/ Pending(socket[i])
    \/ InList(i) /\ isStreaming /\ i[1] = logContext
    \/ \E k \in Cleaners : ToStop(k, i)

\* A cleaner that is to replace the list has all that it lists to stop; one that is to
\* take an entry away has stopped its stream.
CleanerOK(k) ==
  /\ cleaner[k].kind = "stop" => logIds = NoIds
  /\ cleaner[k].kind \in {"context", "clear"} =>
       \A i \in LogIds : socket[i] # NoId /\ InList(i) => Pending(socket[i]) \/ ToStop(k, i)
  /\ cleaner[k].kind = "removed" =>
       \A i \in LogIds :
         socket[i] # NoId /\ InList(i) /\ ~Pending(socket[i]) => i[2] # Head(cleaner[k].left)[2]

ShownOK ==
  /\ \A s \in LogStarts : KeepsOK(s)
  /\ \A i \in LogIds : SocketOK(i)
  /\ \A k \in Cleaners : CleanerOK(k)

LogInv ==
  /\ LogTypeOK /\ MailOK /\ CallsOK /\ EndsOK /\ CleanersOK
  /\ \A s \in LogStarts : snapshot[s] <= object
  /\ ~strayed => ShownOK

\* What the invariant says at rest.
LEMMA LogInvTells == LogInv => LogsTrue
<1> SUFFICES ASSUME LogInv PROVE LogsTrue
  OBVIOUS
<1>1. inbox = <<>> => \A x, y : ~Has(inbox, x) /\ ~Before(inbox, x, y)
  BY DEF Has, Before
<1>2. LinesHeardOnce
  BY <1>1 DEF LogInv, EndsOK, LinesHeardOnce, AtRest
<1>3. StreamsShown
  <2> SUFFICES ASSUME AtRest, ~strayed, NEW i \in LogIds, socket[i] # NoId
               PROVE  i[1] = logContext /\ logIds[i[2]] = i[1] /\ isStreaming
    BY DEF StreamsShown
  <2>1. socket[i] \in LogCalls
    BY DEF LogInv, LogTypeOK
  <2>2. ~Pending(socket[i])
    BY <1>1, <2>1 DEF LogInv, MailOK, AtRest
  <2>3. ASSUME NEW k \in Cleaners PROVE ~ToStop(k, i)
    BY DEF LogInv, CleanersOK, Active, AtRest, Cleaning, ToStop
  <2> QED BY <2>2, <2>3 DEF LogInv, ShownOK, SocketOK, InList
<1> QED BY <1>2, <1>3 DEF LogInv, LogsTrue

\* Initially nothing streams.
LEMMA LogBegins == LogInit => LogInv
<1> SUFFICES ASSUME LogInit PROVE LogInv
  OBVIOUS
<1> USE LogAssumption
<1>1. LogTypeOK
  <2>1. Len(LogPods) \in Nat /\ 0 \in 0..(Len(LogPods) + 1) /\ 0 \in 0..MaxLogSwitches
    OBVIOUS
  <2>2. \A k \in Cleaners : cleaner[k].kind = "idle" /\ cleaner[k].left = <<>>
    BY DEF LogInit, Idle
  <2>3. \A k \in Cleaners : cleaner[k].left \in Seq(LogIds)
    <3>1. <<>> \in Seq(LogIds)
      OBVIOUS
    <3> QED BY <2>2, <3>1, Zenon
  <2>4. /\ startAt \in [LogStarts -> 0..(Len(LogPods) + 1)]
        /\ started \in [LogStarts -> LogContexts] /\ snapshot \in [LogStarts -> Nat]
        /\ logIds \in [PodSet -> LogContexts \cup {NoId}]
        /\ socket \in [LogIds -> LogCalls \cup {NoId}]
    BY <2>1 DEF LogInit, NoIds
  <2> QED BY <2>1, <2>2, <2>3, <2>4 DEF LogInit, LogTypeOK
<1>2. \A x, y : ~Has(inbox, x) /\ ~Before(inbox, x, y)
  BY DEF LogInit, Has, Before
<1>3. \A s \in LogStarts : ~Looping(s)
  BY DEF LogInit, Looping
<1>4. MailOK
  <2>1. inbox \in Seq(LogLetters) /\ OnceIn(inbox, LogEnds)
    BY DEF LogInit, OnceIn
  <2> QED BY <1>2, <1>3, <2>1 DEF MailOK, Pending, LogCalls
<1>5. CallsOK /\ EndsOK
  BY DEF LogInit, CallsOK, EndsOK
<1>6. CleanersOK
  BY <1>2 DEF LogInit, CleanersOK, CleanerStates, Idle, Active
<1>7. \A s \in LogStarts : snapshot[s] <= object
  BY DEF LogInit
<1>8. ShownOK
  BY <1>3 DEF LogInit, ShownOK, KeepsOK, Keeps, SocketOK, CleanerOK, Idle
<1> QED BY <1>1, <1>4, <1>5, <1>6, <1>7, <1>8 DEF LogInv

\* Streams end, are stopped or silenced: whoever heard them will hear of it, or not.
LEMMA EndingKeeps ==
  ASSUME LogTypeOK, MailOK, CallsOK, EndsOK, NEW gone \in SUBSET LogIds,
         UNCHANGED <<startAt, started, hears, resolved>>, silenced \subseteq silenced',
         inbox' \in Seq(LogLetters), OnceIn(inbox', LogEnds),
         \A c \in LogCalls : Has(inbox', ReplyTo(c)) <=> Has(inbox, ReplyTo(c)),
         \A i \in LogIds : Has(inbox', End(i)) <=> Has(inbox, End(i)) \/ i \in gone,
         \A c \in LogCalls, i \in LogIds :
           Before(inbox', ReplyTo(c), End(i))
             <=> Before(inbox, ReplyTo(c), End(i)) \/ (Has(inbox, ReplyTo(c)) /\ i \in gone),
         \A i \in LogIds : socket'[i] = socket[i] \/ socket'[i] = NoId,
         \A i \in gone : socket'[i] = NoId,
         \A i \in LogIds : socket'[i] # socket[i] => i \in gone \/ socket[i] \in silenced'
  PROVE  MailOK' /\ CallsOK' /\ EndsOK'
<1>1. \A c : Pending(c)' <=> Pending(c)
  BY DEF Pending, Looping
<1>2. \A c : Id(c)' = Id(c)
  BY DEF Id
<1>3. MailOK'
  BY <1>1 DEF MailOK
<1>4. CallsOK'
  BY <1>1, <1>2 DEF CallsOK
<1>5. ASSUME NEW i \in LogIds, socket'[i] # NoId
      PROVE  /\ socket'[i] \in resolved' => ~Has(inbox', End(i))
             /\ ~Before(inbox', ReplyTo(socket'[i]), End(i))
  <2>1. socket'[i] = socket[i] /\ i \notin gone /\ socket[i] \in LogCalls
    BY <1>5 DEF LogTypeOK
  <2> QED BY <1>5, <2>1 DEF EndsOK
<1>6. ASSUME NEW c \in hears
      PROVE  \/ socket'[Id(c)'] = c \/ c \in silenced'
             \/ c \in resolved' /\ Has(inbox', End(Id(c)'))
             \/ Before(inbox', ReplyTo(c), End(Id(c)'))
  <2>1. c \in LogCalls /\ Id(c) \in LogIds
    BY DEF LogTypeOK, LogCalls, LogIds, Id
  <2>2. CASE socket[Id(c)] = c /\ socket'[Id(c)] # c
    <3>1. Id(c) \in gone \/ c \in silenced'
      BY <2>1, <2>2
    <3>2. c \in resolved \/ Has(inbox, ReplyTo(c))
      BY <2>1 DEF CallsOK, MailOK
    <3> QED BY <1>2, <2>1, <3>1, <3>2
  <2> QED BY <1>2, <2>1, <2>2 DEF EndsOK
<1>7. EndsOK'
  <2>1. \A c \in hears' : c \in hears
    OBVIOUS
  <2> QED BY <1>5, <1>6, <2>1 DEF EndsOK
<1> QED BY <1>3, <1>4, <1>7

\* A queue that differs from the inbox by what cleaners are told.
Carries(q) ==
  /\ q \in Seq(LogLetters) /\ OnceIn(q, LogEnds)
  /\ \A c \in LogCalls : Has(q, ReplyTo(c)) <=> Has(inbox, ReplyTo(c))
  /\ \A i \in LogIds : Has(q, End(i)) <=> Has(inbox, End(i))
  /\ \A c \in LogCalls, i \in LogIds :
       Before(q, ReplyTo(c), End(i)) <=> Before(inbox, ReplyTo(c), End(i))

\* The stop of a stream sends its end, if it has a socket, and the answer.
LEMMA StopSends ==
  ASSUME LogTypeOK, NEW q \in Seq(LogLetters), OnceIn(q, LogEnds), NEW i \in LogIds,
         NEW k \in Cleaners,
         ~Has(q, Told(k)), StopLogs(i, q, <<<<"stopped", k>>>>)
  PROVE  /\ inbox' \in Seq(LogLetters) /\ OnceIn(inbox', LogEnds)
         /\ \A c \in LogCalls : Has(inbox', ReplyTo(c)) <=> Has(q, ReplyTo(c))
         /\ \A j \in LogIds :
              Has(inbox', End(j)) <=> Has(q, End(j)) \/ (j = i /\ socket[i] # NoId)
         /\ \A l \in Cleaners : Has(inbox', Told(l)) <=> Has(q, Told(l)) \/ l = k
         /\ \A c \in LogCalls, j \in LogIds :
              Before(inbox', ReplyTo(c), End(j))
                <=> Before(q, ReplyTo(c), End(j))
                    \/ (Has(q, ReplyTo(c)) /\ j = i /\ socket[i] # NoId)
<1> DEFINE e == End(i)
           t == Told(k)
<1>0. /\ \A c : ReplyTo(c) # e /\ ReplyTo(c) # t
      /\ \A j : (End(j) = e => j = i) /\ End(j) # t
      /\ \A l : (Told(l) = t => l = k) /\ Told(l) # e
      /\ e # t /\ e \in LogLetters /\ t \in LogLetters /\ e \in LogEnds
  BY LettersDiffer
<1>1. CASE socket[i] = NoId
  <2>1. inbox' = q \o <<t>>
    BY <1>1 DEF StopLogs, EndOf, Told
  <2> HIDE DEF e, t
  <2>2. inbox' = Append(q, t)
    BY <1>0, <2>1
  <2>3. /\ Append(q, t) \in Seq(LogLetters) /\ OnceIn(Append(q, t), LogEnds)
        /\ \A x : Has(Append(q, t), x) <=> Has(q, x) \/ x = t
        /\ \A x, y : Before(Append(q, t), x, y) <=> Before(q, x, y) \/ (Has(q, x) /\ y = t)
    BY <1>0, SentLast DEF t
  <2>4. \A l : Told(l) = t <=> l = k
    BY <1>0 DEF t
  <2> QED BY <1>0, <1>1, <2>2, <2>3, <2>4
<1>2. CASE socket[i] # NoId
  <2>1. inbox' = (q \o <<e>>) \o <<t>>
    BY <1>2 DEF StopLogs, EndOf, Told, End
  <2> HIDE DEF e, t
  <2> DEFINE p == Append(q, e)
  <2>2. inbox' = Append(p, t)
    <3>1. p \in Seq(LogLetters) /\ q \o <<e>> = p
      BY <1>0
    <3> HIDE DEF p
    <3>2. inbox' = p \o <<t>>
      BY <2>1, <3>1, Zenon
    <3>3. p \o <<t>> = Append(p, t)
      BY <1>0, <3>1
    <3> QED BY <3>2, <3>3
  <2>3. /\ p \in Seq(LogLetters) /\ OnceIn(p, LogEnds)
        /\ \A x : Has(p, x) <=> Has(q, x) \/ x = e
        /\ \A x, y : Before(p, x, y) <=> Before(q, x, y) \/ (Has(q, x) /\ y = e)
    BY <1>0, SentLast
  <2> HIDE DEF p
  <2>4. ~Has(p, t)
    BY <1>0, <2>3 DEF t
  <2>5. /\ Append(p, t) \in Seq(LogLetters) /\ OnceIn(Append(p, t), LogEnds)
        /\ \A x : Has(Append(p, t), x) <=> Has(p, x) \/ x = t
        /\ \A x, y : Before(Append(p, t), x, y) <=> Before(p, x, y) \/ (Has(p, x) /\ y = t)
    BY <1>0, <2>3, <2>4, SentLast
  <2>6. (\A l : Told(l) = t <=> l = k) /\ (\A j : End(j) = e <=> j = i)
    BY <1>0 DEF t, e
  <2> QED BY <1>0, <1>2, <2>2, <2>3, <2>5, <2>6
<1> QED BY <1>1, <1>2

\* What a cleaner does when it goes on with what is left.
Cleans(k, what, rest) ==
  /\ \A l \in Cleaners : l # k => cleaner'[l] = cleaner[l]
  /\ cleaner'[k].left = rest
  /\ rest # <<>> => cleaner'[k].kind = what /\ isStreaming' = isStreaming
  /\ rest = <<>> => cleaner'[k].kind = "done" /\ ~isStreaming'
  /\ \A i \in LogIds : socket'[i] = socket[i] \/ socket'[i] = NoId
  /\ rest # <<>> => socket'[Head(rest)] = NoId
  /\ \A i \in LogIds : Has(rest, i) /\ socket'[i] # NoId => ToStop(k, i)'
  /\ \A i \in LogIds, l \in Cleaners : l # k => (ToStop(l, i)' <=> ToStop(l, i))

\* A cleaner goes on: the messages, calls and ends stay as they should.
LEMMA CleanKeeps ==
  ASSUME LogTypeOK, MailOK, CallsOK, EndsOK, CleanersOK, NEW k \in Cleaners, NEW what \in Active,
         NEW rest \in Seq(LogIds), what = "removed" => Tail(rest) = <<>>,
         NEW q, Carries(q), ~Has(q, Told(k)),
         \A l \in Cleaners : Has(q, Told(l)) => Has(inbox, Told(l)),
         UNCHANGED <<startAt, started, hears, resolved, silenced>>, CleanOn(k, what, rest, q)
  PROVE  /\ MailOK' /\ CallsOK' /\ EndsOK' /\ CleanersOK' /\ Cleans(k, what, rest)
         /\ socket' \in [LogIds -> LogCalls \cup {NoId}] /\ isStreaming' \in BOOLEAN
<1>0. cleaner \in [Cleaners -> CleanerStates] /\ what \in {"context", "clear", "stop", "removed"}
  BY DEF CleanersOK, Active
<1>1. CASE rest # <<>>
  <2> DEFINE i == Head(rest)
             gone == {j \in {i} : socket[j] # NoId}
  <2>1. /\ i \in LogIds /\ Tail(rest) \in Seq(LogIds)
        /\ \A x : Has(rest, x) <=> x = i \/ Has(Tail(rest), x)
    BY <1>1, HasTail
  <2> HIDE DEF i
  <2>2. /\ StopLogs(i, q, <<<<"stopped", k>>>>) /\ isStreaming' = isStreaming
        /\ cleaner' = [cleaner EXCEPT ![k] = [kind |-> what, left |-> rest]]
    BY <1>1 DEF CleanOn, i
  <2>3. /\ inbox' \in Seq(LogLetters) /\ OnceIn(inbox', LogEnds)
        /\ \A c \in LogCalls : Has(inbox', ReplyTo(c)) <=> Has(q, ReplyTo(c))
        /\ \A j \in LogIds :
             Has(inbox', End(j)) <=> Has(q, End(j)) \/ (j = i /\ socket[i] # NoId)
        /\ \A l \in Cleaners : Has(inbox', Told(l)) <=> Has(q, Told(l)) \/ l = k
        /\ \A c \in LogCalls, j \in LogIds :
             Before(inbox', ReplyTo(c), End(j))
               <=> Before(q, ReplyTo(c), End(j))
                   \/ (Has(q, ReplyTo(c)) /\ j = i /\ socket[i] # NoId)
    BY <2>1, <2>2, StopSends DEF Carries
  <2>4. socket' = [socket EXCEPT ![i] = NoId]
    BY <2>2 DEF StopLogs
  <2>5. /\ gone \in SUBSET LogIds
        /\ \A j \in LogIds : j \in gone <=> j = i /\ socket[i] # NoId
        /\ \A j \in LogIds : socket'[j] = socket[j] \/ socket'[j] = NoId
        /\ \A j \in gone : socket'[j] = NoId
        /\ \A j \in LogIds : socket'[j] # socket[j] => j \in gone
        /\ socket'[i] = NoId /\ socket' \in [LogIds -> LogCalls \cup {NoId}]
    BY <2>1, <2>4 DEF LogTypeOK
  <2> HIDE DEF gone
  <2>6. MailOK' /\ CallsOK' /\ EndsOK'
    <3>1. /\ \A c \in LogCalls : Has(inbox', ReplyTo(c)) <=> Has(inbox, ReplyTo(c))
          /\ \A j \in LogIds : Has(inbox', End(j)) <=> Has(inbox, End(j)) \/ j \in gone
          /\ \A c \in LogCalls, j \in LogIds :
               Before(inbox', ReplyTo(c), End(j))
                 <=> Before(inbox, ReplyTo(c), End(j)) \/ (Has(inbox, ReplyTo(c)) /\ j \in gone)
      BY <2>3, <2>5 DEF Carries
    <3> QED BY <2>3, <2>5, <3>1, EndingKeeps
  <2>7. /\ \A l \in Cleaners : l # k => cleaner'[l] = cleaner[l]
        /\ cleaner'[k].kind = what /\ cleaner'[k].left = rest
        /\ cleaner' \in [Cleaners -> CleanerStates]
    BY <1>0, <2>2 DEF CleanerStates
  <2>8. CleanersOK'
    <3>1. \A l \in Cleaners : Has(inbox', Told(l)) => Has(inbox, Told(l)) \/ l = k
      BY <2>3
    <3> QED BY <1>0, <1>1, <2>7, <3>1 DEF CleanersOK, Active
  <2>9. \A j \in LogIds : Has(rest, j) /\ socket'[j] # NoId => ToStop(k, j)'
    BY <1>1, <2>1, <2>5, <2>7 DEF ToStop
  <2>10. \A j \in LogIds, l \in Cleaners : l # k => (ToStop(l, j)' <=> ToStop(l, j))
    BY <2>7 DEF ToStop
  <2>11. Cleans(k, what, rest)
    BY <1>1, <2>2, <2>5, <2>7, <2>9, <2>10 DEF Cleans, i
  <2>12. isStreaming' \in BOOLEAN
    BY <2>2 DEF LogTypeOK
  <2> QED BY <2>5, <2>6, <2>8, <2>11, <2>12
<1>2. CASE rest = <<>>
  <2>1. /\ cleaner' = [cleaner EXCEPT ![k].kind = "done", ![k].left = <<>>]
        /\ inbox' = q /\ isStreaming' = FALSE /\ socket' = socket
    BY <1>2 DEF CleanOn
  <2>2. /\ \A l \in Cleaners : l # k => cleaner'[l] = cleaner[l]
        /\ cleaner'[k].kind = "done" /\ cleaner'[k].left = <<>>
        /\ cleaner' \in [Cleaners -> CleanerStates]
    <3>1. <<>> \in Seq(LogIds)
      OBVIOUS
    <3> QED BY <1>0, <2>1, <3>1 DEF CleanerStates
  <2>3. MailOK' /\ CallsOK' /\ EndsOK'
    <3> DEFINE gone == {}
    <3>1. /\ gone \in SUBSET LogIds /\ \A j \in LogIds : j \notin gone
      OBVIOUS
    <3> HIDE DEF gone
    <3>2. /\ inbox' \in Seq(LogLetters) /\ OnceIn(inbox', LogEnds)
          /\ \A c \in LogCalls : Has(inbox', ReplyTo(c)) <=> Has(inbox, ReplyTo(c))
          /\ \A j \in LogIds : Has(inbox', End(j)) <=> Has(inbox, End(j)) \/ j \in gone
          /\ \A c \in LogCalls, j \in LogIds :
               Before(inbox', ReplyTo(c), End(j))
                 <=> Before(inbox, ReplyTo(c), End(j)) \/ (Has(inbox, ReplyTo(c)) /\ j \in gone)
      BY <2>1, <3>1 DEF Carries
    <3>3. /\ \A j \in LogIds : socket'[j] = socket[j] \/ socket'[j] = NoId
          /\ \A j \in gone : socket'[j] = NoId
          /\ \A j \in LogIds : socket'[j] # socket[j] => j \in gone \/ socket[j] \in silenced'
      BY <2>1, <3>1
    <3> QED BY <3>1, <3>2, <3>3, EndingKeeps
  <2>4. CleanersOK'
    <3>1. \A l \in Cleaners : Has(inbox', Told(l)) => Has(inbox, Told(l)) /\ l # k
      BY <2>1
    <3> QED BY <2>2, <3>1 DEF CleanersOK, Active
  <2>5. \A x : ~Has(rest, x)
    BY <1>2 DEF Has
  <2>6. \A j \in LogIds, l \in Cleaners : l # k => (ToStop(l, j)' <=> ToStop(l, j))
    BY <2>2 DEF ToStop
  <2>7. Cleans(k, what, rest)
    BY <1>2, <2>1, <2>2, <2>5, <2>6 DEF Cleans
  <2> QED BY <2>1, <2>3, <2>4, <2>7 DEF LogTypeOK
<1> QED BY <1>1, <1>2

\* A cleaner is done, and an answer is taken from the inbox: no more is sent.
LEMMA LogQuietKeeps ==
  ASSUME LogTypeOK, MailOK, CallsOK, EndsOK, CleanersOK, NEW k \in Cleaners, NEW q,
         Carries(q), inbox' = q, \A l \in Cleaners : Has(q, Told(l)) => Has(inbox, Told(l)),
         ~Has(q, Told(k)), NEW what \in {"due", "done"},
         cleaner' = [cleaner EXCEPT ![k] = [kind |-> what, left |-> <<>>]],
         UNCHANGED <<startAt, started, hears, resolved>>, silenced \subseteq silenced',
         \A i \in LogIds : socket'[i] = socket[i] \/ (socket'[i] = NoId /\ socket[i] \in silenced')
  PROVE  /\ MailOK' /\ CallsOK' /\ EndsOK' /\ CleanersOK'
         /\ \A i \in LogIds, l \in Cleaners : l # k => (ToStop(l, i)' <=> ToStop(l, i))
<1>1. MailOK' /\ CallsOK' /\ EndsOK'
  <2> DEFINE gone == {}
  <2>1. /\ gone \in SUBSET LogIds /\ \A j \in LogIds : j \notin gone
    OBVIOUS
  <2> HIDE DEF gone
  <2>2. /\ inbox' \in Seq(LogLetters) /\ OnceIn(inbox', LogEnds)
        /\ \A c \in LogCalls : Has(inbox', ReplyTo(c)) <=> Has(inbox, ReplyTo(c))
        /\ \A j \in LogIds : Has(inbox', End(j)) <=> Has(inbox, End(j)) \/ j \in gone
        /\ \A c \in LogCalls, j \in LogIds :
             Before(inbox', ReplyTo(c), End(j))
               <=> Before(inbox, ReplyTo(c), End(j)) \/ (Has(inbox, ReplyTo(c)) /\ j \in gone)
    BY <2>1 DEF Carries
  <2>3. /\ \A j \in LogIds : socket'[j] = socket[j] \/ socket'[j] = NoId
        /\ \A j \in gone : socket'[j] = NoId
        /\ \A j \in LogIds : socket'[j] # socket[j] => j \in gone \/ socket[j] \in silenced'
    BY <2>1
  <2> QED BY <2>1, <2>2, <2>3, EndingKeeps
<1>2. /\ \A l \in Cleaners : l # k => cleaner'[l] = cleaner[l]
      /\ cleaner'[k].kind = what /\ cleaner'[k].left = <<>>
      /\ cleaner' \in [Cleaners -> CleanerStates]
  <2>1. <<>> \in Seq(LogIds)
    OBVIOUS
  <2> QED BY <2>1 DEF CleanersOK, CleanerStates
<1>3. CleanersOK'
  <2>1. \A l \in Cleaners : Has(inbox', Told(l)) => Has(inbox, Told(l)) /\ l # k
    OBVIOUS
  <2> QED BY <1>2, <2>1 DEF CleanersOK, Active
<1>4. \A i \in LogIds, l \in Cleaners : l # k => (ToStop(l, i)' <=> ToStop(l, i))
  BY <1>2 DEF ToStop
<1> QED BY <1>1, <1>3, <1>4

\* The inbox carries itself.
LEMMA InboxCarries == ASSUME MailOK PROVE Carries(inbox)
BY DEF MailOK, Carries

\* It does when a cleaner's answer is taken from it, which is gone then.
LEMMA ToldCarries ==
  ASSUME MailOK, NEW k \in Cleaners, inbox # <<>>, Head(inbox) = <<"stopped", k>>
  PROVE  /\ Carries(Tail(inbox)) /\ ~Has(Tail(inbox), Told(k)) /\ Has(inbox, Told(k))
         /\ \A l \in Cleaners : Has(Tail(inbox), Told(l)) => Has(inbox, Told(l))
<1> DEFINE q == Tail(inbox)
<1>1. Head(inbox) = Told(k) /\ Told(k) \notin LogEnds
  BY LettersDiffer DEF Told
<1>2. /\ q \in Seq(LogLetters) /\ OnceIn(q, LogEnds)
      /\ \A x : Has(inbox, x) <=> x = Told(k) \/ Has(q, x)
      /\ ~Has(q, Told(k))
      /\ \A x, y : Before(q, x, y) => Before(inbox, x, y)
      /\ \A x, y : Before(inbox, x, y) => Has(q, y) /\ (x = Told(k) \/ Before(q, x, y))
  BY <1>1, HeardFirst DEF MailOK
<1> HIDE DEF q
<1>3. (\A c : ReplyTo(c) # Told(k)) /\ (\A i : End(i) # Told(k))
  BY LettersDiffer
<1>4. Carries(q)
  BY <1>2, <1>3 DEF Carries
<1> QED BY <1>2, <1>4 DEF q

\* The streams that are listed, in an order.
LEMMA ValuesInList ==
  ASSUME LogTypeOK
  PROVE  /\ SetToSeq(Values) \in Seq(LogIds)
         /\ \A i \in LogIds : Has(SetToSeq(Values), i) <=> InList(i)
         /\ Values = {} <=> logIds = NoIds
         /\ Values = {} <=> SetToSeq(Values) = <<>>
         /\ \A i \in Values : i \in LogIds /\ InList(i)
<1> USE LogAssumption
<1>1. IsFiniteSet(Values)
  <2> DEFINE D == {p \in PodSet : logIds[p] # NoId}
             f == [p \in D |-> <<logIds[p], p>>]
  <2>1. IsFiniteSet(PodSet)
    <3>1. /\ IsFiniteSet(1..Len(LogPods)) /\ DOMAIN LogPods = 1..Len(LogPods)
      BY FS_Interval
    <3>2. LogPods \in Surjection(1..Len(LogPods), PodSet)
      BY <3>1 DEF Surjection, PodSet, ToSet
    <3> QED BY <3>1, <3>2, FS_Surjection
  <2>2. IsFiniteSet(D)
    BY <2>1, FS_Subset
  <2>3. f \in Surjection(D, Values)
    BY DEF Surjection, Values
  <2> QED BY <2>2, <2>3, FS_Surjection
<1>2. \A i : i \in Values <=> \E p \in PodSet : logIds[p] # NoId /\ i = <<logIds[p], p>>
  BY DEF Values
<1>3. \A i \in Values : i \in LogIds /\ InList(i)
  BY <1>2 DEF LogTypeOK, LogIds, InList
<1>4. \A i \in LogIds : InList(i) => i \in Values
  BY <1>2 DEF LogTypeOK, LogIds, InList
<1>5. SetToSeq(Values) \in Seq(Values) /\ \A x : Has(SetToSeq(Values), x) <=> x \in Values
  BY <1>1, SetInOrder
<1>6. SetToSeq(Values) \in Seq(LogIds)
  <2>1. Values \subseteq LogIds
    BY <1>3
  <2> QED BY <1>5, <2>1
<1>7. Values = {} <=> logIds = NoIds
  BY <1>2 DEF LogTypeOK, NoIds
<1>8. Values = {} <=> SetToSeq(Values) = <<>>
  <2>1. SetToSeq(Values) = <<>> => Values = {}
    BY <1>5 DEF Has
  <2>2. SetToSeq(Values) # <<>> => Values # {}
    BY <1>5
  <2> QED BY <2>1, <2>2
<1> QED BY <1>3, <1>4, <1>5, <1>6, <1>7, <1>8

\* "Stop All" replaces the list: nothing is kept or listed, and all of it is to be stopped.
LEMMA StopAllKeeps ==
  ASSUME LogInv, NEW k \in Cleaners, StopAllStreams(k) PROVE LogInv'
<1> USE LogAssumption
<1> DEFINE rest == SetToSeq(Values)
<1>0. /\ LogTypeOK /\ MailOK /\ CallsOK /\ EndsOK /\ CleanersOK
      /\ \A s \in LogStarts : snapshot[s] <= object
  BY DEF LogInv
<1>1. /\ rest \in Seq(LogIds) /\ \A i \in LogIds : Has(rest, i) <=> InList(i)
  BY <1>0, ValuesInList
<1> HIDE DEF rest
<1>2. /\ cleaner[k].kind = "idle" /\ object' = object + 1 /\ logIds' = NoIds
      /\ CleanOn(k, "stop", rest, inbox)
      /\ UNCHANGED <<logContext, logSwitches, startAt, started, snapshot>>
      /\ UNCHANGED <<hears, resolved, silenced, strayed>>
  BY DEF StopAllStreams, Replace, viewVars, rest
<1>3. ~Has(inbox, Told(k)) /\ cleaner[k].left = <<>>
  BY <1>0, <1>2 DEF CleanersOK, Active
<1>4. /\ MailOK' /\ CallsOK' /\ EndsOK' /\ CleanersOK' /\ Cleans(k, "stop", rest)
      /\ socket' \in [LogIds -> LogCalls \cup {NoId}] /\ isStreaming' \in BOOLEAN
  BY <1>0, <1>1, <1>2, <1>3, InboxCarries, CleanKeeps DEF Active
<1>5. LogTypeOK'
  <2>1. logIds' \in [PodSet -> LogContexts \cup {NoId}]
    BY <1>2 DEF NoIds
  <2> QED BY <1>0, <1>2, <1>4, <2>1 DEF LogTypeOK, CleanersOK, CleanerStates
<1>6. \A s \in LogStarts : snapshot'[s] <= object' /\ ~Keeps(s)'
  BY <1>0, <1>2 DEF LogTypeOK, Keeps, Kept
<1>7. \A i \in LogIds : ~InList(i)'
  BY <1>2 DEF InList, NoIds, LogIds
<1>8. ASSUME ~strayed' PROVE ShownOK'
  <2>1. \A s \in LogStarts : KeepsOK(s)'
    BY <1>6 DEF KeepsOK
  <2>2. ASSUME NEW i \in LogIds PROVE SocketOK(i)'
    <3>1. \A c : Pending(c)' <=> Pending(c)
      BY <1>2 DEF Pending, Looping
    <3>2. SocketOK(i) /\ ~ToStop(k, i)
      BY <1>2, <1>3, <1>8 DEF LogInv, ShownOK, ToStop
    <3> QED BY <1>1, <1>4, <3>1, <3>2 DEF SocketOK, Cleans
  <2>3. \A l \in Cleaners : CleanerOK(l)'
    BY <1>2, <1>7 DEF CleanerOK
  <2> QED BY <2>1, <2>2, <2>3 DEF ShownOK
<1> QED BY <1>4, <1>5, <1>6, <1>8 DEF LogInv

\* After a change of context or namespace: what is listed is to be stopped before the
\* list is replaced.
LEMMA ClearLogsKeeps ==
  ASSUME LogInv, NEW k \in Cleaners, NEW what \in {"context", "clear"}, Clear(k, what)
  PROVE  LogInv'
<1> USE LogAssumption
<1> DEFINE rest == SetToSeq(Values)
<1>0. /\ LogTypeOK /\ MailOK /\ CallsOK /\ EndsOK /\ CleanersOK
      /\ \A s \in LogStarts : snapshot[s] <= object
  BY DEF LogInv
<1>1. /\ rest \in Seq(LogIds) /\ \A i \in LogIds : Has(rest, i) <=> InList(i)
      /\ Values = {} <=> rest = <<>>
  BY <1>0, ValuesInList
<1>2. /\ cleaner[k].kind \in {"due", "idle"}
      /\ cleaner[k].kind = "due" => what = "context"
      /\ rest = <<>> => object' = object + 1 /\ logIds' = NoIds
      /\ rest # <<>> => object' = object /\ logIds' = logIds
      /\ CleanOn(k, what, rest, inbox)
      /\ UNCHANGED <<logContext, logSwitches, startAt, started, snapshot>>
      /\ UNCHANGED <<hears, resolved, silenced, strayed>>
  <2> HIDE DEF rest
  <2>1. CASE Values = {}
    BY <1>1, <2>1 DEF Clear, Replace, viewVars, rest
  <2>2. CASE Values # {}
    BY <1>1, <2>2 DEF Clear, Replace, viewVars, rest
  <2> QED BY <2>1, <2>2
<1> HIDE DEF rest
<1>3. ~Has(inbox, Told(k)) /\ cleaner[k].left = <<>>
  BY <1>0, <1>2 DEF CleanersOK, Active
<1>4. /\ MailOK' /\ CallsOK' /\ EndsOK' /\ CleanersOK' /\ Cleans(k, what, rest)
      /\ socket' \in [LogIds -> LogCalls \cup {NoId}] /\ isStreaming' \in BOOLEAN
  BY <1>0, <1>1, <1>2, <1>3, InboxCarries, CleanKeeps DEF Active
<1>5. LogTypeOK'
  <2>1. logIds' \in [PodSet -> LogContexts \cup {NoId}] /\ object' \in Nat
    BY <1>0, <1>2 DEF NoIds, LogTypeOK
  <2> QED BY <1>0, <1>2, <1>4, <2>1 DEF LogTypeOK, CleanersOK, CleanerStates
<1>6. \A s \in LogStarts : snapshot'[s] <= object'
  BY <1>0, <1>2 DEF LogTypeOK
<1>7. \A c : Pending(c)' <=> Pending(c)
  BY <1>2 DEF Pending, Looping
<1>8. ASSUME ~strayed', rest = <<>> PROVE ShownOK'
  <2>1. \A s \in LogStarts : KeepsOK(s)'
    BY <1>0, <1>2, <1>8 DEF KeepsOK, LogTypeOK, Keeps, Kept
  <2>2. ASSUME NEW i \in LogIds PROVE SocketOK(i)'
    <3>1. SocketOK(i) /\ ~ToStop(k, i)
      BY <1>2, <1>3, <1>8 DEF LogInv, ShownOK, ToStop
    <3>2. ~InList(i)
      BY <1>1, <1>8 DEF Has
    <3> QED BY <1>4, <1>7, <3>1, <3>2 DEF SocketOK, Cleans
  <2>3. \A i \in LogIds : ~InList(i)'
    BY <1>2, <1>8 DEF InList, NoIds, LogIds
  <2>4. \A l \in Cleaners : CleanerOK(l)'
    BY <1>2, <1>8, <2>3 DEF CleanerOK
  <2> QED BY <2>1, <2>2, <2>4 DEF ShownOK
<1>9. ASSUME ~strayed', rest # <<>> PROVE ShownOK'
  <2>0. /\ cleaner'[k].kind = what /\ isStreaming' = isStreaming /\ logIds' = logIds
        /\ \A i : InList(i)' <=> InList(i)
    BY <1>2, <1>4, <1>9 DEF Cleans, InList
  <2>1. ASSUME NEW s \in LogStarts PROVE KeepsOK(s)'
    <3>1. KeepsOK(s)
      BY <1>2, <1>9 DEF LogInv, ShownOK
    <3>2. Keeps(s)' <=> Keeps(s)
      BY <1>2, <1>9 DEF Keeps, Kept, Looping
    <3>3. \A l \in Cleaners :
            cleaner[l].kind \in {"due", "context"} => cleaner'[l].kind \in {"due", "context"}
      BY <1>2, <1>4, <2>0 DEF Cleans
    <3>4. \A l \in Cleaners : cleaner'[l].kind = "stop" => cleaner[l].kind = "stop"
      BY <1>4, <2>0 DEF Cleans
    <3> QED BY <1>2, <2>0, <3>1, <3>2, <3>3, <3>4 DEF KeepsOK
  <2>2. ASSUME NEW i \in LogIds PROVE SocketOK(i)'
    <3>1. SocketOK(i) /\ ~ToStop(k, i)
      BY <1>2, <1>3, <1>9 DEF LogInv, ShownOK, ToStop
    <3> QED BY <1>2, <1>4, <1>7, <2>0, <3>1 DEF SocketOK, Cleans
  <2>3. ASSUME NEW l \in Cleaners PROVE CleanerOK(l)'
    <3>1. CASE l = k
      BY <1>1, <1>4, <2>0, <3>1 DEF CleanerOK, Cleans
    <3>2. CASE l # k
      <4>1. CleanerOK(l)
        BY <1>2, <1>9 DEF LogInv, ShownOK
      <4> QED BY <1>4, <1>7, <2>0, <3>2, <4>1 DEF CleanerOK, Cleans
    <3> QED BY <3>1, <3>2
  <2> QED BY <2>1, <2>2, <2>3 DEF ShownOK
<1> QED BY <1>4, <1>5, <1>6, <1>8, <1>9 DEF LogInv

\* The stream of a pod that is no longer in the list is stopped.
LEMMA SyncKeeps ==
  ASSUME LogInv, NEW k \in Cleaners, SyncPods(k) PROVE LogInv'
<1> USE LogAssumption
<1>0. /\ LogTypeOK /\ MailOK /\ CallsOK /\ EndsOK /\ CleanersOK
      /\ \A s \in LogStarts : snapshot[s] <= object
  BY DEF LogInv
<1>1. PICK i \in Values : CleanOn(k, "removed", <<i>>, inbox)
  BY DEF SyncPods
<1> DEFINE rest == <<i>>
<1>2. i \in LogIds /\ InList(i)
  BY <1>0, ValuesInList
<1>3. rest \in Seq(LogIds) /\ rest # <<>> /\ Tail(rest) = <<>> /\ Head(rest) = i
  BY <1>2
<1> HIDE DEF rest
<1>4. /\ cleaner[k].kind = "idle" /\ CleanOn(k, "removed", rest, inbox)
      /\ UNCHANGED <<logContext, logSwitches, object, logIds, startAt, started, snapshot>>
      /\ UNCHANGED <<hears, resolved, silenced, strayed>>
  BY <1>1 DEF SyncPods, viewVars, rest
<1>5. ~Has(inbox, Told(k)) /\ cleaner[k].left = <<>>
  BY <1>0, <1>4 DEF CleanersOK, Active
<1>6. /\ MailOK' /\ CallsOK' /\ EndsOK' /\ CleanersOK' /\ Cleans(k, "removed", rest)
      /\ socket' \in [LogIds -> LogCalls \cup {NoId}] /\ isStreaming' \in BOOLEAN
  BY <1>0, <1>3, <1>4, <1>5, InboxCarries, CleanKeeps DEF Active
<1>7. LogTypeOK'
  BY <1>0, <1>4, <1>6 DEF LogTypeOK, CleanersOK, CleanerStates
<1>8. ASSUME ~strayed' PROVE ShownOK'
  <2>0. /\ cleaner'[k].kind = "removed" /\ isStreaming' = isStreaming
        /\ (\A j : InList(j)' <=> InList(j)) /\ \A c : Pending(c)' <=> Pending(c)
    BY <1>3, <1>4, <1>6 DEF Cleans, InList, Pending, Looping
  <2>1. ASSUME NEW s \in LogStarts PROVE KeepsOK(s)'
    <3>1. KeepsOK(s)
      BY <1>4, <1>8 DEF LogInv, ShownOK
    <3>2. Keeps(s)' <=> Keeps(s)
      BY <1>4 DEF Keeps, Kept, Looping
    <3>3. \A l \in Cleaners :
            cleaner[l].kind \in {"due", "context"} => cleaner'[l].kind \in {"due", "context"}
      BY <1>4, <1>6 DEF Cleans
    <3>4. \A l \in Cleaners : cleaner'[l].kind = "stop" => cleaner[l].kind = "stop"
      BY <1>6, <2>0 DEF Cleans
    <3> QED BY <1>4, <2>0, <3>1, <3>2, <3>3, <3>4 DEF KeepsOK
  <2>2. ASSUME NEW j \in LogIds PROVE SocketOK(j)'
    <3>1. SocketOK(j) /\ ~ToStop(k, j)
      BY <1>4, <1>5, <1>8 DEF LogInv, ShownOK, ToStop
    <3> QED BY <1>4, <1>6, <2>0, <3>1 DEF SocketOK, Cleans
  <2>3. ASSUME NEW l \in Cleaners PROVE CleanerOK(l)'
    <3>1. CASE l = k
      <4>1. socket'[i] = NoId /\ cleaner'[k].left = rest
        BY <1>3, <1>6 DEF Cleans
      <4>2. \A j \in LogIds : InList(j) /\ j[2] = i[2] => j = i
        BY <1>2 DEF InList, LogIds
      <4> QED BY <1>3, <2>0, <3>1, <4>1, <4>2 DEF CleanerOK
    <3>2. CASE l # k
      <4>1. CleanerOK(l)
        BY <1>4, <1>8 DEF LogInv, ShownOK
      <4> QED BY <1>4, <1>6, <2>0, <3>2, <4>1 DEF CleanerOK, Cleans
    <3> QED BY <3>1, <3>2
  <2> QED BY <2>1, <2>2, <2>3 DEF ShownOK
<1> QED BY <1>0, <1>4, <1>6, <1>7, <1>8 DEF LogInv

\* The pod is no longer in the list: its entry goes, whose stream was stopped.
LEMMA RemovedKeeps ==
  ASSUME LogInv, NEW k \in Cleaners, Stopped(k), cleaner[k].kind = "removed" PROVE LogInv'
<1> USE LogAssumption
<1> DEFINE q == Tail(inbox)
           h == Head(cleaner[k].left)
<1>0. /\ LogTypeOK /\ MailOK /\ CallsOK /\ EndsOK /\ CleanersOK
      /\ \A s \in LogStarts : snapshot[s] <= object
  BY DEF LogInv
<1>1. /\ Carries(q) /\ ~Has(q, Told(k))
      /\ \A l \in Cleaners : Has(q, Told(l)) => Has(inbox, Told(l))
  BY <1>0, ToldCarries DEF Stopped
<1>2. /\ logIds' = [logIds EXCEPT ![h[2]] = NoId] /\ inbox' = q
      /\ cleaner' = [cleaner EXCEPT ![k] = [kind |-> "done", left |-> <<>>]]
      /\ UNCHANGED <<object, isStreaming, socket, logContext, logSwitches>>
      /\ UNCHANGED <<startAt, started, snapshot, hears, resolved, silenced, strayed>>
  BY DEF Stopped, viewVars
<1> HIDE DEF q
<1>3. cleaner[k].left \in Seq(LogIds) /\ cleaner[k].left # <<>> /\ Tail(cleaner[k].left) = <<>>
  BY <1>0 DEF CleanersOK, CleanerStates, Active
<1>4. h \in LogIds /\ h[2] \in PodSet
  <2>1. h \in LogIds
    BY <1>3
  <2> QED BY <2>1 DEF LogIds
<1> HIDE DEF h
<1>5. /\ MailOK' /\ CallsOK' /\ EndsOK' /\ CleanersOK'
      /\ \A i \in LogIds, l \in Cleaners : l # k => (ToStop(l, i)' <=> ToStop(l, i))
  <2>1. \A i \in LogIds : socket'[i] = socket[i] /\ silenced \subseteq silenced'
    BY <1>2
  <2> QED BY <1>0, <1>1, <1>2, <2>1, LogQuietKeeps
<1>6. LogTypeOK'
  <2>1. logIds' \in [PodSet -> LogContexts \cup {NoId}]
    BY <1>0, <1>2, <1>4 DEF LogTypeOK
  <2> QED BY <1>0, <1>2, <1>5, <2>1 DEF LogTypeOK, CleanersOK, CleanerStates
<1>7. ASSUME ~strayed' PROVE ShownOK'
  <2>0. /\ \A c : Pending(c)' <=> Pending(c)
        /\ \A j \in LogIds : InList(j)' <=> InList(j) /\ j[2] # h[2]
        /\ cleaner'[k].kind = "done" /\ \A l \in Cleaners : l # k => cleaner'[l] = cleaner[l]
        /\ logIds = NoIds => logIds' = NoIds
    <3>1. \A c : Pending(c)' <=> Pending(c)
      BY <1>2 DEF Pending, Looping
    <3>2. \A j \in LogIds : InList(j)' <=> InList(j) /\ j[2] # h[2]
      BY <1>0, <1>2, <1>4 DEF InList, LogIds, LogTypeOK
    <3>3. cleaner'[k].kind = "done" /\ \A l \in Cleaners : l # k => cleaner'[l] = cleaner[l]
      BY <1>0, <1>2 DEF CleanersOK
    <3>4. logIds = NoIds => logIds' = NoIds
      BY <1>2, <1>4 DEF NoIds
    <3> QED BY <3>1, <3>2, <3>3, <3>4
  <2>1. ASSUME NEW s \in LogStarts PROVE KeepsOK(s)'
    <3>1. KeepsOK(s)
      BY <1>2, <1>7 DEF LogInv, ShownOK
    <3>2. Keeps(s)' <=> Keeps(s)
      BY <1>2 DEF Keeps, Kept, Looping
    <3> QED BY <1>2, <2>0, <3>1, <3>2 DEF KeepsOK, Stopped
  <2>2. ASSUME NEW j \in LogIds PROVE SocketOK(j)'
    <3>1. SocketOK(j) /\ CleanerOK(k)
      BY <1>2, <1>7 DEF LogInv, ShownOK
    <3>2. ~ToStop(k, j)
      BY <1>3 DEF ToStop, Has
    <3>3. socket[j] # NoId /\ InList(j) /\ ~Pending(socket[j]) => j[2] # h[2]
      BY <3>1 DEF CleanerOK, h
    <3> QED BY <1>2, <1>5, <2>0, <3>1, <3>2, <3>3 DEF SocketOK
  <2>3. ASSUME NEW l \in Cleaners PROVE CleanerOK(l)'
    <3>1. CASE l = k
      BY <2>0, <3>1 DEF CleanerOK
    <3>2. CASE l # k
      <4>1. CleanerOK(l)
        BY <1>2, <1>7 DEF LogInv, ShownOK
      <4> QED BY <1>2, <1>5, <2>0, <3>2, <4>1 DEF CleanerOK
    <3> QED BY <3>1, <3>2
  <2> QED BY <2>1, <2>2, <2>3 DEF ShownOK
<1> QED BY <1>0, <1>2, <1>5, <1>6, <1>7 DEF LogInv

\* A cleaner goes on with the next stream, or ends, and replaces the list if it has not.
LEMMA StoppedKeeps ==
  ASSUME LogInv, NEW k \in Cleaners, Stopped(k), cleaner[k].kind # "removed" PROVE LogInv'
<1> USE LogAssumption
<1> DEFINE q == Tail(inbox)
           rest == Tail(cleaner[k].left)
           what == cleaner[k].kind
<1>0. /\ LogTypeOK /\ MailOK /\ CallsOK /\ EndsOK /\ CleanersOK
      /\ \A s \in LogStarts : snapshot[s] <= object
  BY DEF LogInv
<1>1. /\ Carries(q) /\ ~Has(q, Told(k)) /\ Has(inbox, Told(k))
      /\ \A l \in Cleaners : Has(q, Told(l)) => Has(inbox, Told(l))
  BY <1>0, ToldCarries DEF Stopped
<1>2. /\ CleanOn(k, what, rest, q)
      /\ rest = <<>> /\ what # "stop" => object' = object + 1 /\ logIds' = NoIds
      /\ ~(rest = <<>> /\ what # "stop") => object' = object /\ logIds' = logIds
      /\ UNCHANGED <<logContext, logSwitches, startAt, started, snapshot>>
      /\ UNCHANGED <<hears, resolved, silenced, strayed>>
  BY DEF Stopped, viewVars, Replace
<1>3. /\ what \in Active /\ what \in {"context", "clear", "stop"}
      /\ cleaner[k].left \in Seq(LogIds) /\ cleaner[k].left # <<>>
  BY <1>0, <1>1 DEF CleanersOK, CleanerStates, Active
<1>4. rest \in Seq(LogIds) /\ \A i : ToStop(k, i) <=> Has(rest, i)
  BY <1>3 DEF ToStop
<1> HIDE DEF q, rest
<1>5. /\ MailOK' /\ CallsOK' /\ EndsOK' /\ CleanersOK' /\ Cleans(k, what, rest)
      /\ socket' \in [LogIds -> LogCalls \cup {NoId}] /\ isStreaming' \in BOOLEAN
  <2>1. what = "removed" => Tail(rest) = <<>>
    OBVIOUS
  <2>2. UNCHANGED <<startAt, started, hears, resolved, silenced>>
    BY <1>2
  <2> HIDE DEF what
  <2> QED BY <1>0, <1>1, <1>2, <1>3, <1>4, <2>1, <2>2, CleanKeeps
<1>6. LogTypeOK'
  <2>1. logIds' \in [PodSet -> LogContexts \cup {NoId}] /\ object' \in Nat
    BY <1>0, <1>2 DEF NoIds, LogTypeOK
  <2> QED BY <1>0, <1>2, <1>5, <2>1 DEF LogTypeOK, CleanersOK, CleanerStates
<1>7. \A s \in LogStarts : snapshot'[s] <= object'
  BY <1>0, <1>2 DEF LogTypeOK
<1>8. (\A c : Pending(c)' <=> Pending(c)) /\ \A s : Looping(s)' <=> Looping(s)
  BY <1>2 DEF Pending, Looping
<1>9. \A l \in Cleaners : l # k => cleaner'[l] = cleaner[l]
  BY <1>5 DEF Cleans
<1>10. ASSUME ~strayed', rest = <<>> PROVE ShownOK'
  <2>0. /\ \A s \in LogStarts : KeepsOK(s)
        /\ \A i \in LogIds : SocketOK(i)
        /\ \A l \in Cleaners : CleanerOK(l)
    BY <1>2, <1>10 DEF LogInv, ShownOK
  <2>1. logIds' = NoIds
    BY <1>2, <1>10, <2>0 DEF CleanerOK
  <2>2. ASSUME NEW s \in LogStarts PROVE ~Keeps(s)'
    <3>1. CASE what = "stop"
      <4>1. ~Keeps(s)
        BY <2>0, <3>1 DEF KeepsOK
      <4> QED BY <1>2, <1>8, <3>1, <4>1 DEF Keeps, Kept
    <3>2. CASE what # "stop"
      BY <1>0, <1>2, <1>10, <3>2 DEF Keeps, Kept, LogTypeOK
    <3> QED BY <3>1, <3>2
  <2>3. ASSUME NEW i \in LogIds PROVE SocketOK(i)'
    <3>1. ~ToStop(k, i)
      BY <1>4, <1>10 DEF Has
    <3>2. socket[i] # NoId /\ InList(i) => Pending(socket[i])
      <4>1. CASE what = "stop"
        <5>1. logIds = NoIds
          BY <2>0, <4>1 DEF CleanerOK
        <5> QED BY <5>1 DEF InList, NoIds, LogIds
      <4>2. CASE what # "stop"
        BY <1>3, <2>0, <3>1, <4>2 DEF CleanerOK
      <4> QED BY <4>1, <4>2
    <3> QED BY <1>5, <1>8, <2>0, <3>1, <3>2 DEF SocketOK, Cleans
  <2>4. \A i \in LogIds : ~InList(i)'
    BY <2>1 DEF InList, NoIds, LogIds
  <2>5. \A l \in Cleaners : CleanerOK(l)'
    BY <2>1, <2>4 DEF CleanerOK
  <2> QED BY <2>2, <2>3, <2>5 DEF ShownOK, KeepsOK
<1>11. ASSUME ~strayed', rest # <<>> PROVE ShownOK'
  <2>0. /\ \A s \in LogStarts : KeepsOK(s)
        /\ \A i \in LogIds : SocketOK(i)
        /\ \A l \in Cleaners : CleanerOK(l)
    BY <1>2, <1>11 DEF LogInv, ShownOK
  <2>1. /\ cleaner'[k].kind = what /\ isStreaming' = isStreaming /\ logIds' = logIds
        /\ object' = object /\ \A i : InList(i)' <=> InList(i)
    BY <1>2, <1>5, <1>11 DEF Cleans, InList
  <2>2. ASSUME NEW s \in LogStarts PROVE KeepsOK(s)'
    <3>1. Keeps(s)' <=> Keeps(s)
      BY <1>2, <1>8, <2>1 DEF Keeps, Kept
    <3>2. \A l \in Cleaners : cleaner'[l].kind = cleaner[l].kind
      BY <1>9, <2>1
    <3> QED BY <1>2, <2>0, <2>1, <3>1, <3>2 DEF KeepsOK
  <2>3. ASSUME NEW i \in LogIds PROVE SocketOK(i)'
    BY <1>2, <1>4, <1>5, <1>8, <2>0, <2>1 DEF SocketOK, Cleans
  <2>4. ASSUME NEW l \in Cleaners PROVE CleanerOK(l)'
    <3>1. CASE l = k
      BY <1>3, <1>4, <1>5, <1>8, <2>0, <2>1, <3>1 DEF CleanerOK, Cleans
    <3>2. CASE l # k
      BY <1>5, <1>8, <2>0, <2>1, <3>2 DEF CleanerOK, Cleans
    <3> QED BY <3>1, <3>2
  <2> QED BY <2>2, <2>3, <2>4 DEF ShownOK
<1> QED BY <1>5, <1>6, <1>7, <1>10, <1>11 DEF LogInv

\* A change of context closes every socket, and the view has yet to clear its list.
LEMMA SwitchLogsKeeps ==
  ASSUME LogInv, NEW k \in Cleaners, NEW to \in LogContexts, SwitchLogs(to, k) PROVE LogInv'
<1> USE LogAssumption
<1>0. /\ LogTypeOK /\ MailOK /\ CallsOK /\ EndsOK /\ CleanersOK
      /\ \A s \in LogStarts : snapshot[s] <= object
  BY DEF LogInv
<1>1. /\ cleaner[k].kind = "idle" /\ logSwitches < MaxLogSwitches
      /\ logSwitches' = logSwitches + 1 /\ logContext' = to
      /\ silenced' = silenced \cup ({socket[i] : i \in LogIds} \ {NoId})
      /\ socket' = [i \in LogIds |-> NoId] /\ cleaner' = [cleaner EXCEPT ![k].kind = "due"]
      /\ UNCHANGED <<isStreaming, object, logIds, startAt, started, snapshot, hears, resolved>>
      /\ UNCHANGED <<inbox, strayed>>
  BY DEF SwitchLogs, viewVars
<1>2. ~Has(inbox, Told(k)) /\ cleaner[k].left = <<>>
  BY <1>0, <1>1 DEF CleanersOK, Active
<1>3. cleaner' = [cleaner EXCEPT ![k] = [kind |-> "due", left |-> <<>>]]
  <2>1. cleaner[k] \in CleanerStates
    BY <1>0 DEF CleanersOK
  <2>2. [cleaner[k] EXCEPT !.kind = "due"] = [kind |-> "due", left |-> <<>>]
    BY <1>2, <2>1 DEF CleanerStates
  <2> QED BY <1>1, <2>2
<1>4. /\ MailOK' /\ CallsOK' /\ EndsOK' /\ CleanersOK'
      /\ \A i \in LogIds, l \in Cleaners : l # k => (ToStop(l, i)' <=> ToStop(l, i))
  <2>1. /\ silenced \subseteq silenced' /\ inbox' = inbox /\ Carries(inbox)
        /\ \A i \in LogIds :
             socket'[i] = socket[i] \/ (socket'[i] = NoId /\ socket[i] \in silenced')
    BY <1>0, <1>1, InboxCarries
  <2> QED BY <1>0, <1>1, <1>2, <1>3, <2>1, LogQuietKeeps
<1>5. LogTypeOK'
  <2>1. /\ logSwitches' \in 0..MaxLogSwitches /\ silenced' \subseteq LogCalls
        /\ socket' \in [LogIds -> LogCalls \cup {NoId}]
    BY <1>0, <1>1 DEF LogTypeOK
  <2> QED BY <1>0, <1>1, <1>4, <2>1 DEF LogTypeOK, CleanersOK, CleanerStates
<1>6. ASSUME ~strayed' PROVE ShownOK'
  <2>0. /\ \A s \in LogStarts : KeepsOK(s)
        /\ \A l \in Cleaners : CleanerOK(l)
    BY <1>1, <1>6 DEF LogInv, ShownOK
  <2>1. /\ cleaner'[k].kind = "due" /\ \A l \in Cleaners : l # k => cleaner'[l] = cleaner[l]
    BY <1>0, <1>3 DEF CleanersOK
  <2>2. \A s \in LogStarts : KeepsOK(s)'
    <3>1. \A s \in LogStarts : Keeps(s)' <=> Keeps(s)
      BY <1>1 DEF Keeps, Kept, Looping
    <3> QED BY <1>1, <2>0, <2>1, <3>1 DEF KeepsOK
  <2>3. (\A i \in LogIds : SocketOK(i)') /\ \A l \in Cleaners : CleanerOK(l)'
    BY <1>1, <2>0, <2>1 DEF SocketOK, CleanerOK
  <2> QED BY <2>2, <2>3 DEF ShownOK
<1> QED BY <1>0, <1>1, <1>4, <1>5, <1>6 DEF LogInv

\* A stream ends: its call has been answered, or will be before the end is heard.
LEMMA SocketClosesKeeps ==
  ASSUME LogInv, NEW i \in LogIds, SocketCloses(i) PROVE LogInv'
<1> USE LogAssumption
<1> DEFINE gone == {i}
<1>0. /\ LogTypeOK /\ MailOK /\ CallsOK /\ EndsOK /\ CleanersOK
      /\ \A s \in LogStarts : snapshot[s] <= object
  BY DEF LogInv
<1>1. /\ socket[i] # NoId /\ socket' = [socket EXCEPT ![i] = NoId]
      /\ inbox' = Append(inbox, End(i))
      /\ UNCHANGED <<logContext, logSwitches, isStreaming, object, logIds, cleaner>>
      /\ UNCHANGED <<startAt, started, snapshot, hears, resolved, silenced, strayed>>
  BY DEF SocketCloses, viewVars, End
<1>2. /\ inbox' \in Seq(LogLetters) /\ OnceIn(inbox', LogEnds)
      /\ \A x : Has(inbox', x) <=> Has(inbox, x) \/ x = End(i)
      /\ \A x, y : Before(inbox', x, y) <=> Before(inbox, x, y) \/ (Has(inbox, x) /\ y = End(i))
  BY <1>0, <1>1, LettersDiffer, SentLast DEF MailOK
<1>3. MailOK' /\ CallsOK' /\ EndsOK'
  <2>1. /\ \A c \in LogCalls : Has(inbox', ReplyTo(c)) <=> Has(inbox, ReplyTo(c))
        /\ \A j \in LogIds : Has(inbox', End(j)) <=> Has(inbox, End(j)) \/ j \in gone
        /\ \A c \in LogCalls, j \in LogIds :
             Before(inbox', ReplyTo(c), End(j))
               <=> Before(inbox, ReplyTo(c), End(j)) \/ (Has(inbox, ReplyTo(c)) /\ j \in gone)
    BY <1>2, LettersDiffer
  <2>2. /\ \A j \in LogIds : socket'[j] = socket[j] \/ socket'[j] = NoId
        /\ \A j \in gone : socket'[j] = NoId
        /\ \A j \in LogIds : socket'[j] # socket[j] => j \in gone \/ socket[j] \in silenced'
    BY <1>0, <1>1 DEF LogTypeOK
  <2>3. gone \in SUBSET LogIds /\ silenced \subseteq silenced'
    BY <1>1
  <2> HIDE DEF gone
  <2> QED BY <1>0, <1>1, <1>2, <2>1, <2>2, <2>3, EndingKeeps
<1>4. CleanersOK'
  <2>1. \A k : Has(inbox', Told(k)) <=> Has(inbox, Told(k))
    BY <1>2, LettersDiffer
  <2> QED BY <1>0, <1>1, <2>1 DEF CleanersOK
<1>5. LogTypeOK'
  BY <1>0, <1>1 DEF LogTypeOK
<1>6. ASSUME ~strayed' PROVE ShownOK'
  <2>1. \A j \in LogIds : socket'[j] # NoId => socket'[j] = socket[j]
    BY <1>0, <1>1 DEF LogTypeOK
  <2>2. (\A s \in LogStarts : KeepsOK(s)) /\ (\A j \in LogIds : SocketOK(j))
        /\ \A k \in Cleaners : CleanerOK(k)
    BY <1>1, <1>6 DEF LogInv, ShownOK
  <2>3. \A c : Pending(c)' <=> Pending(c)
    BY <1>1 DEF Pending, Looping
  <2>4. \A s \in LogStarts : KeepsOK(s)'
    BY <1>1, <2>2 DEF KeepsOK, Keeps, Kept, Looping
  <2>5. (\A j : InList(j)' <=> InList(j)) /\ \A k, j : ToStop(k, j)' <=> ToStop(k, j)
    BY <1>1 DEF InList, ToStop
  <2>6. \A j \in LogIds : SocketOK(j)'
    BY <1>1, <2>1, <2>2, <2>3, <2>5 DEF SocketOK
  <2>7. \A k \in Cleaners : CleanerOK(k)'
    BY <1>1, <2>1, <2>2, <2>3, <2>5 DEF CleanerOK
  <2> QED BY <2>4, <2>6, <2>7 DEF ShownOK
<1> QED BY <1>0, <1>1, <1>3, <1>4, <1>5, <1>6 DEF LogInv

\* The end of a stream is heard: a socket of that id that is open now awaits its reply, so
\* that no entry goes whose stream is open and answered.
LEMMA HearEndKeeps ==
  ASSUME LogInv, NEW i \in LogIds, HearEnd(i) PROVE LogInv'
<1> USE LogAssumption
<1> DEFINE told == {c \in hears \cap resolved : Id(c) = i}
           gone == told # {} /\ logIds[i[2]] = i[1]
<1>0. /\ LogTypeOK /\ MailOK /\ CallsOK /\ EndsOK /\ CleanersOK
      /\ \A s \in LogStarts : snapshot[s] <= object
  BY DEF LogInv
<1>1. /\ inbox # <<>> /\ Head(inbox) = End(i) /\ inbox' = Tail(inbox)
      /\ hears' = hears \ told
      /\ gone => logIds' = [logIds EXCEPT ![i[2]] = NoId]
      /\ ~gone => logIds' = logIds
      /\ UNCHANGED <<logContext, logSwitches, object, socket, cleaner>>
      /\ UNCHANGED <<startAt, started, snapshot, resolved, silenced>>
  BY DEF HearEnd, viewVars, End
<1>2. /\ isStreaming' = (isStreaming /\ (gone => logIds' # NoIds))
      /\ strayed' = (strayed \/ (gone /\ logIds' = NoIds /\ \E s \in LogStarts : Looping(s)))
  BY DEF HearEnd
<1>3. /\ inbox' \in Seq(LogLetters) /\ OnceIn(inbox', LogEnds)
      /\ \A x : Has(inbox, x) <=> x = End(i) \/ Has(inbox', x)
      /\ \A x, y : Before(inbox', x, y) => Before(inbox, x, y)
      /\ \A x, y : Before(inbox, x, y) => x = End(i) \/ Before(inbox', x, y)
  BY <1>0, <1>1, HeardFirst DEF MailOK
<1>4. /\ \A c : Pending(c)' <=> Pending(c)
      /\ \A c : Id(c)' = Id(c)
  BY <1>1 DEF Pending, Looping, Id
<1>5. /\ \A c : Has(inbox', ReplyTo(c)) <=> Has(inbox, ReplyTo(c))
      /\ \A c, j : Before(inbox, ReplyTo(c), End(j)) => Before(inbox', ReplyTo(c), End(j))
      /\ \A k : Has(inbox', Told(k)) <=> Has(inbox, Told(k))
      /\ \A j : j # i => (Has(inbox', End(j)) <=> Has(inbox, End(j)))
  BY <1>3, LettersDiffer
<1>6. \A c \in hears' : c \in hears /\ (c \in resolved => Id(c) # i)
  BY <1>1
<1> HIDE DEF told
<1>7. MailOK'
  BY <1>0, <1>3, <1>4, <1>5 DEF MailOK
<1>8. CallsOK'
  BY <1>0, <1>1, <1>4, <1>6 DEF CallsOK
<1>9. EndsOK'
  <2>1. \A j \in LogIds : socket'[j] # NoId =>
          /\ socket'[j] \in resolved' => ~Has(inbox', End(j))
          /\ ~Before(inbox', ReplyTo(socket'[j]), End(j))
    BY <1>0, <1>1, <1>3 DEF EndsOK
  <2>2. \A c \in hears' :
          \/ socket'[Id(c)] = c \/ c \in silenced'
          \/ c \in resolved' /\ Has(inbox', End(Id(c)))
          \/ Before(inbox', ReplyTo(c), End(Id(c)))
    BY <1>0, <1>1, <1>5, <1>6 DEF EndsOK
  <2> QED BY <1>4, <2>1, <2>2 DEF EndsOK
<1>10. CleanersOK'
  BY <1>0, <1>1, <1>5 DEF CleanersOK
<1>11. i[1] \in LogContexts /\ i[2] \in PodSet
  BY DEF LogIds
<1>12. LogTypeOK'
  <2>1. logIds' \in [PodSet -> LogContexts \cup {NoId}]
    BY <1>0, <1>1, <1>11 DEF LogTypeOK
  <2>2. isStreaming' \in BOOLEAN /\ strayed' \in BOOLEAN
    BY <1>2, Zenon
  <2>3. hears' \subseteq LogCalls
    BY <1>0, <1>6 DEF LogTypeOK
  <2> QED BY <1>0, <1>1, <2>1, <2>2, <2>3 DEF LogTypeOK
<1>13. ASSUME ~strayed' PROVE ShownOK'
  <2> HIDE DEF gone
  <2>1. ~strayed /\ (gone /\ logIds' = NoIds => \A s \in LogStarts : ~Looping(s))
    BY <1>2, <1>13, Zenon
  <2>2. (\A s \in LogStarts : KeepsOK(s)) /\ (\A j \in LogIds : SocketOK(j))
        /\ \A k \in Cleaners : CleanerOK(k)
    BY <2>1 DEF LogInv, ShownOK
  <2>3. isStreaming /\ (gone => logIds' # NoIds) => isStreaming'
    BY <1>2, Zenon
  <2>4. ASSUME NEW j \in LogIds
        PROVE  InList(j)' <=> InList(j) /\ ~(gone /\ j[2] = i[2])
    <3>1. j[1] \in LogContexts /\ j[2] \in PodSet
      BY DEF LogIds
    <3> QED BY <1>0, <1>1, <1>11, <3>1 DEF LogTypeOK, InList
  <2>5. gone => InList(i)
    BY DEF gone, InList
  <2>6. ASSUME NEW s \in LogStarts PROVE KeepsOK(s)'
    <3>1. Keeps(s)' <=> Keeps(s)
      BY <1>1 DEF Keeps, Kept, Looping
    <3>2. Keeps(s) => Looping(s)
      BY DEF Keeps
    <3> QED BY <1>1, <2>1, <2>2, <2>3, <3>1, <3>2 DEF KeepsOK
  <2>7. ASSUME NEW j \in LogIds PROVE SocketOK(j)'
    <3>1. \A k \in Cleaners : ToStop(k, j)' <=> ToStop(k, j)
      BY <1>1 DEF ToStop
    <3>2. CASE InList(j) /\ gone /\ j[2] = i[2]
      <4>1. j = i
        BY <2>5, <3>2 DEF InList, LogIds
      <4>2. socket[i] # NoId => Pending(socket[i])
        BY <1>0, <1>3 DEF CallsOK, EndsOK
      <4> QED BY <1>1, <1>4, <4>1, <4>2 DEF SocketOK
    <3>3. CASE ~(InList(j) /\ gone /\ j[2] = i[2])
      <4>1. InList(j)' => logIds' # NoIds
        BY DEF InList, NoIds, LogIds
      <4> QED BY <1>1, <1>4, <2>2, <2>3, <2>4, <3>1, <3>3, <4>1 DEF SocketOK
    <3> QED BY <3>2, <3>3
  <2>8. ASSUME NEW k \in Cleaners PROVE CleanerOK(k)'
    <3>1. \A j : ToStop(k, j)' <=> ToStop(k, j)
      BY <1>1 DEF ToStop
    <3>2. logIds = NoIds => logIds' = NoIds
      BY <1>1, <1>11, <2>5 DEF InList, NoIds
    <3> QED BY <1>1, <1>4, <2>2, <2>4, <3>1, <3>2 DEF CleanerOK
  <2> QED BY <2>6, <2>7, <2>8 DEF ShownOK
<1> QED BY <1>0, <1>1, <1>7, <1>8, <1>9, <1>10, <1>12, <1>13 DEF LogInv

\* The loop of a start may ask for its n-th pod, with these sockets and messages: none of
\* its calls awaits a reply, and what has gone from the sockets will be heard.
AskReady(s, n, context, links, q) ==
  /\ started' \in [LogStarts -> LogContexts] /\ started'[s] = context
  /\ \A t \in LogStarts : t # s => started'[t] = started[t]
  /\ resolved' \subseteq LogCalls
  /\ \A c \in LogCalls : Has(q, ReplyTo(c)) <=> c[1] # s /\ Pending(c)
  /\ \A c \in resolved' :
       \E m \in DOMAIN LogPods :
         LogPods[m] = c[2] /\ m < (IF c[1] = s THEN n ELSE startAt[c[1]])
  /\ \A c \in hears : c \in resolved' \/ (c[1] # s /\ Pending(c))
  /\ \A i \in LogIds : links[i] # NoId =>
       /\ links[i] \in resolved' \/ (links[i][1] # s /\ Pending(links[i]))
       /\ <<started'[links[i][1]], links[i][2]>> = i
       /\ links[i] \in resolved' => ~Has(q, End(i))
       /\ ~Before(q, ReplyTo(links[i]), End(i))
  /\ \A c \in hears :
       \/ links[Id(c)'] = c \/ c \in silenced
       \/ c \in resolved' /\ Has(q, End(Id(c)'))
       \/ Before(q, ReplyTo(c), End(Id(c)'))

\* What the asking leaves: one call more awaits its reply, if there is one more pod.
AskDone(s, n, links, q) ==
  /\ MailOK' /\ CallsOK' /\ EndsOK'
  /\ \A k : Has(inbox', Told(k)) <=> Has(q, Told(k))
  /\ socket' \in [LogIds -> LogCalls \cup {NoId}]
  /\ hears' \subseteq LogCalls /\ silenced' \subseteq LogCalls
  /\ startAt' = [startAt EXCEPT ![s] = n]
  /\ startAt' \in [LogStarts -> 0..(Len(LogPods) + 1)]
  /\ snapshot' \in [LogStarts -> Nat]
  /\ \A t \in LogStarts : t # s => snapshot'[t] = snapshot[t]
  /\ snapshot'[s] = object \/ snapshot'[s] = snapshot[s]
  /\ \A i \in LogIds : socket'[i] # links[i] => Pending(socket[i])'
  /\ \A c \in LogCalls : c[1] # s => (Pending(c)' <=> Pending(c))
  /\ n = Len(LogPods) + 1 => socket' = links

\* The loop of a start asks for its next pod.
LEMMA LoopKeeps ==
  ASSUME LogTypeOK, NEW s \in LogStarts, NEW n \in 1..(Len(LogPods) + 1),
         NEW context \in LogContexts, NEW links \in [LogIds -> LogCalls \cup {NoId}],
         NEW q \in Seq(LogLetters), OnceIn(q, LogEnds), AskReady(s, n, context, links, q),
         Ask(s, context, n, links, q)
  PROVE  AskDone(s, n, links, q)
<1> USE LogAssumption DEF AskReady, AskDone
<1>0. /\ Len(LogPods) \in Nat /\ DOMAIN LogPods = 1..Len(LogPods)
      /\ startAt' = [startAt EXCEPT ![s] = n]
      /\ startAt' \in [LogStarts -> 0..(Len(LogPods) + 1)]
      /\ \A t \in LogStarts : t # s => startAt'[t] = startAt[t]
      /\ startAt'[s] = n
  <2>1. Len(LogPods) \in Nat /\ DOMAIN LogPods = 1..Len(LogPods)
    OBVIOUS
  <2>2. startAt' = [startAt EXCEPT ![s] = n]
    BY DEF Ask
  <2>3. n \in 0..(Len(LogPods) + 1) /\ startAt \in [LogStarts -> 0..(Len(LogPods) + 1)]
    BY <2>1 DEF LogTypeOK
  <2> QED BY <2>1, <2>2, <2>3
<1>1. \A c \in LogCalls : c[1] \in LogStarts /\ c[2] \in PodSet /\ c = <<c[1], c[2]>>
  BY DEF LogCalls
<1>2. \A c \in LogCalls : c[1] # s => (Pending(c)' <=> Pending(c))
  BY <1>0, <1>1 DEF Pending, Looping
<1>3. \A c \in LogCalls : Id(c)' \in LogIds
  BY <1>1 DEF Id, LogIds
<1>4. CASE n = Len(LogPods) + 1
  <2>1. socket' = links /\ inbox' = q /\ UNCHANGED <<snapshot, hears, silenced>>
    BY <1>0, <1>4 DEF Ask
  <2>2. \A c \in LogCalls : c[1] = s => ~Pending(c)'
    BY <1>0, <1>4 DEF Pending, Looping
  <2>3. MailOK'
    BY <1>2, <2>1, <2>2 DEF MailOK
  <2>4. hears \subseteq LogCalls /\ \A i \in LogIds : links[i] # NoId => links[i] \in LogCalls
    BY DEF LogTypeOK
  <2>5. CallsOK'
    <3>1. \A c \in resolved' : \E m \in DOMAIN LogPods : LogPods[m] = c[2] /\ m < startAt'[c[1]]
      <4> SUFFICES ASSUME NEW c \in resolved'
                   PROVE  \E m \in DOMAIN LogPods : LogPods[m] = c[2] /\ m < startAt'[c[1]]
        OBVIOUS
      <4>1. (IF c[1] = s THEN n ELSE startAt[c[1]]) = startAt'[c[1]]
        BY <1>0, <1>1
      <4> QED BY <4>1
    <3>2. \A c \in hears : c \in resolved' \/ Pending(c)'
      BY <1>2, <2>4
    <3>3. \A i \in LogIds : links[i] # NoId =>
             (links[i] \in resolved' \/ Pending(links[i])') /\ Id(links[i])' = i
      BY <1>2, <2>4 DEF Id
    <3> QED BY <2>1, <3>1, <3>2, <3>3 DEF CallsOK
  <2>6. EndsOK'
    BY <2>1 DEF EndsOK
  <2> QED BY <1>0, <1>2, <2>1, <2>3, <2>5, <2>6 DEF LogTypeOK
<1>5. CASE n # Len(LogPods) + 1
  <2> DEFINE p == LogPods[n]
             c2 == <<s, p>>
             i2 == <<context, p>>
  <2>1. n \in DOMAIN LogPods /\ p \in PodSet /\ c2 \in LogCalls /\ i2 \in LogIds
    BY <1>0, <1>5 DEF LogCalls, LogIds
  <2>2. /\ socket' = [links EXCEPT ![i2] = c2]
        /\ silenced' = silenced \cup ({links[i2]} \ {NoId})
        /\ inbox' = Append(q, ReplyTo(c2))
        /\ snapshot' = [snapshot EXCEPT ![s] = object]
        /\ hears' = hears \cup {c2}
    <3>1. n <= Len(LogPods)
      BY <1>0, <1>5
    <3>2. /\ snapshot' = [snapshot EXCEPT ![s] = object]
          /\ hears' = hears \cup {c2}
          /\ StreamLogs(c2, i2, links, q)
      BY <3>1, Zenon DEF Ask
    <3> QED BY <3>2, Zenon DEF StreamLogs, ReplyTo
  <2>3. c2[1] = s /\ c2[2] = p /\ Id(c2)' = i2
    BY DEF Id
  <2> HIDE DEF i2
  <2>4. \A c \in LogCalls : Pending(c)' <=> c = c2 \/ (c[1] # s /\ Pending(c))
    <3>1. \A c \in LogCalls : c[1] = s => (Pending(c)' <=> c = c2)
      BY <1>0, <1>1, <2>1 DEF Pending, Looping
    <3> QED BY <1>2, <2>3, <3>1
  <2> HIDE DEF c2
  <2>5. c2 \notin resolved'
    <3> SUFFICES ASSUME c2 \in resolved' PROVE FALSE
      OBVIOUS
    <3>1. PICK m \in DOMAIN LogPods : LogPods[m] = p /\ m < n
      BY <2>3
    <3> QED BY <2>1, <3>1 DEF IsInjective
  <2> HIDE DEF p
  <2>6. ~Has(q, ReplyTo(c2)) /\ ReplyTo(c2) \in LogLetters
    BY <2>1, <2>3, LettersDiffer
  <2>7. /\ inbox' \in Seq(LogLetters) /\ OnceIn(inbox', LogEnds)
        /\ \A x : Has(inbox', x) <=> Has(q, x) \/ x = ReplyTo(c2)
        /\ \A x, y : Before(inbox', x, y) <=> Before(q, x, y) \/ (Has(q, x) /\ y = ReplyTo(c2))
    BY <2>2, <2>6, SentLast
  <2>8. /\ \A i : Has(inbox', End(i)) <=> Has(q, End(i))
        /\ \A k : Has(inbox', Told(k)) <=> Has(q, Told(k))
        /\ \A c : Has(inbox', ReplyTo(c)) <=> Has(q, ReplyTo(c)) \/ c = c2
        /\ \A c, i : Before(inbox', ReplyTo(c), End(i)) <=> Before(q, ReplyTo(c), End(i))
    BY <2>7, LettersDiffer
  <2>9. /\ socket' \in [LogIds -> LogCalls \cup {NoId}] /\ socket'[i2] = c2
        /\ \A i \in LogIds : i # i2 => socket'[i] = links[i]
    BY <2>1, <2>2
  <2>10. hears \subseteq LogCalls /\ \A i \in LogIds : links[i] # NoId => links[i] \in LogCalls
    BY DEF LogTypeOK
  <2>11. MailOK'
    BY <2>4, <2>7, <2>8 DEF MailOK
  <2>12. CallsOK'
    <3>1. \A c \in resolved' : \E m \in DOMAIN LogPods : LogPods[m] = c[2] /\ m < startAt'[c[1]]
      <4> SUFFICES ASSUME NEW c \in resolved'
                   PROVE  \E m \in DOMAIN LogPods : LogPods[m] = c[2] /\ m < startAt'[c[1]]
        OBVIOUS
      <4>1. (IF c[1] = s THEN n ELSE startAt[c[1]]) = startAt'[c[1]]
        BY <1>0, <1>1
      <4> QED BY <4>1
    <3>2. \A c \in hears' : c \in resolved' \/ Pending(c)'
      BY <2>1, <2>2, <2>4, <2>10
    <3>3. \A i \in LogIds : socket'[i] # NoId =>
             (socket'[i] \in resolved' \/ Pending(socket[i])') /\ Id(socket[i])' = i
      BY <2>1, <2>3, <2>4, <2>9, <2>10 DEF Id
    <3> QED BY <3>1, <3>2, <3>3 DEF CallsOK
  <2>13. EndsOK'
    <3>1. ASSUME NEW i \in LogIds, socket'[i] # NoId
          PROVE  /\ socket'[i] \in resolved' => ~Has(inbox', End(i))
                 /\ ~Before(inbox', ReplyTo(socket'[i]), End(i))
      <4>1. CASE i = i2
        BY <2>5, <2>6, <2>8, <2>9, <4>1, BeforeHas
      <4>2. CASE i # i2
        BY <2>8, <2>9, <3>1, <4>2
      <4> QED BY <4>1, <4>2
    <3>2. ASSUME NEW c \in hears'
          PROVE  \/ socket'[Id(c)'] = c \/ c \in silenced'
                 \/ c \in resolved' /\ Has(inbox', End(Id(c)'))
                 \/ Before(inbox', ReplyTo(c), End(Id(c)'))
      <4>1. CASE c = c2
        BY <2>3, <2>9, <4>1
      <4>2. CASE c \in hears /\ links[Id(c)'] = c
        <5>1. c \in LogCalls /\ c # NoId
          BY <2>10, <4>2
        <5> QED BY <1>3, <2>2, <2>9, <4>2, <5>1
      <4>3. CASE c \in hears /\ links[Id(c)'] # c
        BY <2>2, <2>8, <4>3
      <4> QED BY <2>2, <4>1, <4>2, <4>3
    <3> QED BY <3>1, <3>2 DEF EndsOK
  <2>14. /\ hears' \subseteq LogCalls /\ silenced' \subseteq LogCalls
         /\ snapshot' \in [LogStarts -> Nat] /\ snapshot'[s] = object
         /\ \A t \in LogStarts : t # s => snapshot'[t] = snapshot[t]
    <3>1. hears' \subseteq LogCalls
      BY <2>1, <2>2, <2>10
    <3>2. silenced' \subseteq LogCalls
      BY <2>1, <2>2, <2>10 DEF LogTypeOK
    <3>3. /\ snapshot' \in [LogStarts -> Nat] /\ snapshot'[s] = object
          /\ \A t \in LogStarts : t # s => snapshot'[t] = snapshot[t]
      BY <2>2 DEF LogTypeOK
    <3> QED BY <3>1, <3>2, <3>3
  <2>15. \A i \in LogIds : socket'[i] # links[i] => Pending(socket[i])'
    BY <2>1, <2>4, <2>9
  <2> QED BY <1>0, <1>2, <1>5, <2>8, <2>9, <2>11, <2>12, <2>13, <2>14, <2>15
<1> QED BY <1>4, <1>5

\* A start: nothing streams as far as the view knows, so that nothing is listed and open.
LEMMA StartKeeps ==
  ASSUME LogInv, NEW s \in LogStarts, StartStreaming(s) PROVE LogInv'
<1> USE LogAssumption
<1> DEFINE N == Len(LogPods)
<1>0. /\ LogTypeOK /\ MailOK /\ CallsOK /\ EndsOK /\ CleanersOK
      /\ \A t \in LogStarts : snapshot[t] <= object
      /\ N \in Nat /\ DOMAIN LogPods = 1..N
  BY DEF LogInv
<1>1. /\ startAt[s] = 0 /\ ~isStreaming /\ isStreaming' = TRUE
      /\ started' = [started EXCEPT ![s] = logContext]
      /\ Ask(s, logContext, 1, socket, inbox)
      /\ UNCHANGED <<logContext, logSwitches, object, logIds, resolved, cleaner>>
  BY DEF StartStreaming
<1>2. strayed' = (strayed \/ Cleaning)
  BY DEF StartStreaming
<1>3. \A c : Pending(c) => c[1] # s
  BY <1>1 DEF Pending, Looping
<1>4. \A c \in LogCalls : c[1] \in LogStarts
  BY DEF LogCalls
<1>5. ASSUME NEW c \in resolved
      PROVE  c[1] # s /\ \E m \in DOMAIN LogPods : LogPods[m] = c[2] /\ m < startAt[c[1]]
  <2>1. PICK m \in DOMAIN LogPods : LogPods[m] = c[2] /\ m < startAt[c[1]]
    BY <1>0 DEF CallsOK
  <2> QED BY <1>0, <1>1, <2>1
<1>6. \A c \in hears : c[1] # s
  BY <1>0, <1>3, <1>5 DEF CallsOK
<1>7. \A i \in LogIds : socket[i] # NoId => socket[i][1] # s /\ socket[i] \in LogCalls
  BY <1>0, <1>3, <1>5 DEF CallsOK, LogTypeOK
<1>8. /\ started' \in [LogStarts -> LogContexts] /\ started'[s] = logContext
      /\ \A t \in LogStarts : t # s => started'[t] = started[t]
      /\ logContext \in LogContexts /\ 1 \in 1..(N + 1)
  BY <1>0, <1>1 DEF LogTypeOK
<1>9. \A c \in LogCalls : c[1] # s => Id(c)' = Id(c)
  BY <1>4, <1>8 DEF Id
<1>10. AskDone(s, 1, socket, inbox)
  <2>1. inbox \in Seq(LogLetters) /\ OnceIn(inbox, LogEnds)
    BY <1>0 DEF MailOK
  <2>2. /\ resolved' \subseteq LogCalls
        /\ \A c \in LogCalls : Has(inbox, ReplyTo(c)) <=> c[1] # s /\ Pending(c)
    BY <1>0, <1>1, <1>3 DEF LogTypeOK, MailOK
  <2>3. \A c \in resolved' :
          \E m \in DOMAIN LogPods :
            LogPods[m] = c[2] /\ m < (IF c[1] = s THEN 1 ELSE startAt[c[1]])
    BY <1>1, <1>5
  <2>4. \A c \in hears : c \in resolved' \/ (c[1] # s /\ Pending(c))
    BY <1>0, <1>1, <1>3 DEF CallsOK
  <2>5. \A i \in LogIds : socket[i] # NoId =>
          /\ socket[i] \in resolved' \/ (socket[i][1] # s /\ Pending(socket[i]))
          /\ <<started'[socket[i][1]], socket[i][2]>> = i
          /\ socket[i] \in resolved' => ~Has(inbox, End(i))
          /\ ~Before(inbox, ReplyTo(socket[i]), End(i))
    BY <1>0, <1>1, <1>3, <1>4, <1>7, <1>8 DEF CallsOK, EndsOK, Id
  <2>6. ASSUME NEW c \in hears
        PROVE  \/ socket[Id(c)'] = c \/ c \in silenced
               \/ c \in resolved' /\ Has(inbox, End(Id(c)'))
               \/ Before(inbox, ReplyTo(c), End(Id(c)'))
    <3>1. Id(c)' = Id(c)
      BY <1>0, <1>6, <1>9 DEF LogTypeOK
    <3> QED BY <1>0, <1>1, <3>1 DEF EndsOK
  <2>7. socket \in [LogIds -> LogCalls \cup {NoId}]
    BY <1>0 DEF LogTypeOK
  <2>8. AskReady(s, 1, logContext, socket, inbox)
    BY <1>8, <2>2, <2>3, <2>4, <2>5, <2>6 DEF AskReady
  <2> QED BY <1>0, <1>1, <1>8, <2>1, <2>7, <2>8, LoopKeeps
<1>11. LogTypeOK'
  <2>1. strayed' \in BOOLEAN
    BY <1>2, Zenon
  <2> QED BY <1>0, <1>1, <1>8, <1>10, <2>1 DEF AskDone, LogTypeOK
<1>12. CleanersOK'
  BY <1>0, <1>1, <1>10 DEF AskDone, CleanersOK
<1>13. \A t \in LogStarts : snapshot'[t] <= object'
  <2> SUFFICES ASSUME NEW t \in LogStarts PROVE snapshot'[t] <= object'
    OBVIOUS
  <2>1. object \in Nat /\ snapshot[t] \in Nat /\ snapshot[t] <= object /\ object' = object
    BY <1>0, <1>1 DEF LogTypeOK
  <2>2. snapshot'[t] = snapshot[t] \/ snapshot'[t] = object
    BY <1>10 DEF AskDone
  <2> QED BY <2>1, <2>2
<1>14. ASSUME ~strayed' PROVE ShownOK'
  <2>1. ~strayed /\ ~Cleaning
    BY <1>2, <1>14, Zenon
  <2>2. \A k \in Cleaners : cleaner'[k].kind \in {"idle", "done"} /\ ~\E j : ToStop(k, j)
    BY <1>0, <1>1, <2>1 DEF Cleaning, CleanersOK, Active, ToStop
  <2>3. (\A t \in LogStarts : KeepsOK(t)) /\ \A j \in LogIds : SocketOK(j)
    BY <2>1 DEF LogInv, ShownOK
  <2>4. ASSUME NEW t \in LogStarts PROVE KeepsOK(t)'
    <3>1. CASE t = s
      BY <1>1, <1>8, <2>2, <3>1 DEF KeepsOK
    <3>2. CASE t # s
      <4>1. ~Keeps(t)
        BY <1>1, <2>3 DEF KeepsOK
      <4> QED BY <1>1, <1>10, <3>2, <4>1 DEF AskDone, KeepsOK, Keeps, Kept, Looping
    <3> QED BY <3>1, <3>2
  <2>5. ASSUME NEW j \in LogIds PROVE SocketOK(j)'
    <3>1. CASE socket'[j] # socket[j]
      BY <1>10, <3>1 DEF AskDone, SocketOK
    <3>2. CASE socket'[j] = socket[j]
      <4>1. socket[j] # NoId => Pending(socket[j])
        BY <1>1, <2>2, <2>3 DEF SocketOK
      <4>2. \A c \in LogCalls : Pending(c) => Pending(c)'
        BY <1>3, <1>10 DEF AskDone
      <4> QED BY <1>7, <3>2, <4>1, <4>2 DEF SocketOK
    <3> QED BY <3>1, <3>2
  <2>6. \A k \in Cleaners : CleanerOK(k)'
    BY <2>2 DEF CleanerOK
  <2> QED BY <2>4, <2>5, <2>6 DEF ShownOK
<1> QED BY <1>10, <1>11, <1>12, <1>13, <1>14 DEF AskDone, LogInv

\* A reply: the stream is listed, or stopped as the list was replaced, and the loop goes
\* on.
LEMMA ReplyKeeps ==
  ASSUME LogInv, NEW c \in LogCalls, LogReply(c) PROVE LogInv'
<1> USE LogAssumption
<1> DEFINE N == Len(LogPods)
           s == c[1]
           i == Id(c)
           n == startAt[s] + 1
           shuts == ~Kept(s) /\ socket[i] # NoId
           q == Tail(inbox)
           q1 == IF shuts THEN Append(q, End(i)) ELSE q
           links == IF Kept(s) THEN socket ELSE [socket EXCEPT ![i] = NoId]
<1>0. /\ LogTypeOK /\ MailOK /\ CallsOK /\ EndsOK /\ CleanersOK
      /\ \A t \in LogStarts : snapshot[t] <= object
      /\ N \in Nat /\ DOMAIN LogPods = 1..N
      /\ s \in LogStarts /\ c[2] \in PodSet /\ i = <<started[s], c[2]>> /\ i \in LogIds
      /\ i[1] = started[s] /\ i[2] = c[2] /\ started[s] \in LogContexts
  <2>1. LogTypeOK /\ s \in LogStarts /\ c[2] \in PodSet /\ N \in Nat /\ DOMAIN LogPods = 1..N
    BY DEF LogInv, LogCalls
  <2>2. started[s] \in LogContexts
    BY <2>1 DEF LogTypeOK
  <2> QED BY <2>1, <2>2 DEF LogInv, Id, LogIds
<1>1. /\ inbox # <<>> /\ Head(inbox) = ReplyTo(c)
      /\ inbox \in Seq(LogLetters) /\ OnceIn(inbox, LogEnds)
  BY <1>0 DEF LogReply, ReplyTo, MailOK
<1>2. /\ q \in Seq(LogLetters) /\ OnceIn(q, LogEnds)
      /\ \A x : Has(inbox, x) <=> x = ReplyTo(c) \/ Has(q, x)
      /\ ~Has(q, ReplyTo(c))
      /\ \A x, y : Before(q, x, y) => Before(inbox, x, y)
      /\ \A x, y : Before(inbox, x, y) => Has(q, y) /\ (x = ReplyTo(c) \/ Before(q, x, y))
      /\ \A y : Has(q, y) => Before(inbox, ReplyTo(c), y)
  BY <1>1, HeardFirst, LettersDiffer
<1>3. Pending(c) /\ Looping(s) /\ c[2] = LogPods[startAt[s]] /\ startAt[s] \in 1..N
  <2>1. Pending(c)
    BY <1>0, <1>2 DEF MailOK
  <2> QED BY <2>1 DEF Pending, Looping
<1>4. \A d : Pending(d) => d[1] # s \/ d = c
  BY <1>3 DEF Pending
<1> HIDE DEF q
<1>5. /\ q1 \in Seq(LogLetters) /\ OnceIn(q1, LogEnds)
      /\ \A d : Has(q1, ReplyTo(d)) <=> Has(q, ReplyTo(d))
      /\ \A k : Has(q1, Told(k)) <=> Has(q, Told(k))
      /\ \A j : Has(q1, End(j)) <=> Has(q, End(j)) \/ (shuts /\ j = i)
      /\ \A d, j : Before(q1, ReplyTo(d), End(j)) <=>
                     Before(q, ReplyTo(d), End(j)) \/ (Has(q, ReplyTo(d)) /\ shuts /\ j = i)
  <2>1. CASE shuts
    <3> HIDE DEF shuts, i
    <3>1. q1 = Append(q, End(i))
      BY <2>1
    <3> HIDE DEF q1
    <3>2. /\ q1 \in Seq(LogLetters) /\ OnceIn(q1, LogEnds)
          /\ \A x : Has(q1, x) <=> Has(q, x) \/ x = End(i)
          /\ \A x, y : Before(q1, x, y) <=> Before(q, x, y) \/ (Has(q, x) /\ y = End(i))
      <4>1. End(i) \in LogLetters /\ End(i) \in LogEnds
        BY <1>0, LettersDiffer
      <4> QED BY <1>2, <3>1, <4>1, SentLast
    <3> QED BY <2>1, <3>2, LettersDiffer
  <2>2. CASE ~shuts
    BY <1>2, <2>2
  <2> QED BY <2>1, <2>2
<1>6. /\ resolved' = resolved \cup {c} /\ Ask(s, started[s], n, links, q1)
      /\ Kept(s) => logIds' = [logIds EXCEPT ![c[2]] = started[s]]
      /\ ~Kept(s) => logIds' = logIds
      /\ UNCHANGED <<logContext, logSwitches, object, started, cleaner>>
  <2>1. ~Kept(s) => q \o EndOf(i) = q1
    <3>1. CASE socket[i] = NoId
      <4>1. EndOf(i) = <<>> /\ q1 = q /\ q \o <<>> = q
        BY <1>2, <3>1, ConcatEmptySeq DEF EndOf
      <4> QED BY <4>1
    <3>2. CASE socket[i] # NoId
      <4>1. EndOf(i) = <<End(i)>> /\ q \o <<End(i)>> = Append(q, End(i))
        BY <1>2, <3>2, AppendIsConcat, LettersDiffer DEF EndOf, End
      <4> QED BY <3>2, <4>1
    <3> QED BY <3>1, <3>2
  <2> HIDE DEF q1, i
  <2>2. /\ resolved' = resolved \cup {c}
        /\ UNCHANGED <<logContext, logSwitches, object, started, cleaner>>
    BY DEF LogReply
  <2>3. CASE Kept(s)
    <3>1. q1 = q /\ links = socket
      BY <2>3 DEF q1
    <3>2. Ask(s, started[s], n, socket, q) /\ logIds' = [logIds EXCEPT ![c[2]] = started[s]]
      BY <1>0, <2>3 DEF LogReply, i, q
    <3> QED BY <2>2, <2>3, <3>1, <3>2
  <2>4. CASE ~Kept(s)
    <3>1. links = [socket EXCEPT ![i] = NoId]
      BY <2>4
    <3>2. Ask(s, started[s], n, links, q \o EndOf(i)) /\ logIds' = logIds
      BY <1>0, <2>4, <3>1 DEF LogReply, i, q
    <3> QED BY <2>1, <2>2, <2>4, <3>2
  <2> QED BY <2>3, <2>4
<1>7. /\ isStreaming' = (isStreaming /\ (startAt[s] = N => logIds' # NoIds))
      /\ Kept(s) => strayed' = (strayed \/ \E k \in Cleaners :
                       cleaner[k].kind \in {"due", "context", "clear", "removed"})
      /\ ~Kept(s) => strayed' = (strayed \/ startAt[s] # N
                       \/ (logIds = NoIds /\ \E t \in LogStarts \ {s} : Looping(t)))
  BY DEF LogReply
<1> HIDE DEF q1, n, N
<1>8. /\ links \in [LogIds -> LogCalls \cup {NoId}]
      /\ \A j \in LogIds : links[j] = IF ~Kept(s) /\ j = i THEN NoId ELSE socket[j]
  <2>1. socket \in [LogIds -> LogCalls \cup {NoId}]
    BY <1>0 DEF LogTypeOK
  <2> HIDE DEF i
  <2> QED BY <1>0, <2>1
<1> HIDE DEF links, shuts
<1>9. Id(c)' = i /\ \A d : Id(d)' = Id(d)
  BY <1>6 DEF Id
<1> HIDE DEF i
<1>10. AskDone(s, n, links, q1)
  <2>1. n \in 1..(N + 1) /\ n = startAt[s] + 1
    BY <1>0, <1>3 DEF n
  <2>2. /\ resolved' \subseteq LogCalls
        /\ \A d \in LogCalls : Has(q1, ReplyTo(d)) <=> d[1] # s /\ Pending(d)
    <3>1. resolved' \subseteq LogCalls
      BY <1>0, <1>6 DEF LogTypeOK
    <3>2. \A d \in LogCalls : Has(q, ReplyTo(d)) <=> Pending(d) /\ d # c
      BY <1>0, <1>2, LettersDiffer DEF MailOK
    <3>3. \A d \in LogCalls : Pending(d) /\ d # c <=> d[1] # s /\ Pending(d)
      BY <1>4
    <3> QED BY <1>5, <3>1, <3>2, <3>3
  <2>3. ASSUME NEW d \in resolved'
        PROVE  \E m \in DOMAIN LogPods :
                 LogPods[m] = d[2] /\ m < (IF d[1] = s THEN n ELSE startAt[d[1]])
    <3>1. CASE d = c
      <4>1. startAt[s] \in DOMAIN LogPods /\ startAt[s] < n
        BY <1>0, <1>3, <2>1
      <4> QED BY <1>3, <3>1, <4>1
    <3>2. CASE d # c
      <4>1. PICK m \in DOMAIN LogPods : LogPods[m] = d[2] /\ m < startAt[d[1]]
        BY <1>0, <1>6, <3>2 DEF CallsOK
      <4>2. d[1] = s => m < n
        BY <1>0, <1>3, <2>1, <4>1
      <4> QED BY <4>1, <4>2
    <3> QED BY <3>1, <3>2
  <2>4. \A d \in hears : d \in resolved' \/ (d[1] # s /\ Pending(d))
    BY <1>0, <1>4, <1>6 DEF CallsOK
  <2>5. ASSUME NEW j \in LogIds, links[j] # NoId
        PROVE  /\ links[j] \in resolved' \/ (links[j][1] # s /\ Pending(links[j]))
               /\ Id(links[j]) = j
               /\ links[j] \in resolved' => ~Has(q1, End(j))
               /\ ~Before(q1, ReplyTo(links[j]), End(j))
    <3>1. links[j] = socket[j] /\ ~(shuts /\ j = i)
      BY <1>8, <2>5 DEF shuts
    <3>2. /\ socket[j] \in resolved \/ Pending(socket[j])
          /\ Id(socket[j]) = j
          /\ socket[j] \in resolved => ~Has(inbox, End(j))
          /\ ~Before(inbox, ReplyTo(socket[j]), End(j))
      BY <1>0, <2>5, <3>1 DEF CallsOK, EndsOK
    <3>3. links[j] \in resolved' \/ (links[j][1] # s /\ Pending(links[j]))
      BY <1>4, <1>6, <3>1, <3>2
    <3>4. socket[j] = c => ~Has(q, End(j))
      BY <1>2, <3>2
    <3>5. links[j] \in resolved' => ~Has(q1, End(j))
      BY <1>2, <1>5, <1>6, <3>1, <3>2, <3>4
    <3>6. ~Before(q1, ReplyTo(links[j]), End(j))
      BY <1>2, <1>5, <3>1, <3>2
    <3> QED BY <3>1, <3>2, <3>3, <3>5, <3>6
  <2>6. ASSUME NEW d \in hears
        PROVE  \/ links[Id(d)] = d \/ d \in silenced
               \/ d \in resolved' /\ Has(q1, End(Id(d)))
               \/ Before(q1, ReplyTo(d), End(Id(d)))
    <3>1. d \in LogCalls /\ Id(d) \in LogIds /\ d # NoId
      BY <1>0 DEF LogTypeOK, LogCalls, LogIds, Id
    <3>2. d = c \/ d \in resolved \/ Has(q, ReplyTo(d))
      BY <1>0, <1>2, <3>1, LettersDiffer DEF CallsOK, MailOK
    <3>3. CASE socket[Id(d)] = d /\ links[Id(d)] # d
      <4>1. shuts /\ Id(d) = i
        BY <1>8, <3>1, <3>3 DEF shuts
      <4> QED BY <1>5, <1>6, <3>2, <4>1
    <3>4. CASE d \in resolved /\ Has(inbox, End(Id(d)))
      <4>1. Has(q, End(Id(d)))
        BY <1>2, <3>4, LettersDiffer
      <4> QED BY <1>5, <1>6, <3>4, <4>1
    <3>5. CASE Before(inbox, ReplyTo(d), End(Id(d)))
      <4>1. CASE d = c
        BY <1>2, <1>5, <1>6, <3>5, <4>1
      <4>2. CASE d # c
        <5>1. Before(q, ReplyTo(d), End(Id(d)))
          BY <1>2, <3>5, <4>2, LettersDiffer
        <5> QED BY <1>5, <5>1
      <4> QED BY <4>1, <4>2
    <3> QED BY <1>0, <3>3, <3>4, <3>5 DEF EndsOK
  <2>7. /\ started' \in [LogStarts -> LogContexts] /\ started'[s] = started[s]
        /\ \A t \in LogStarts : t # s => started'[t] = started[t]
    BY <1>0, <1>6 DEF LogTypeOK
  <2>8. /\ \A j \in LogIds : links[j] # NoId =>
             /\ links[j] \in resolved' \/ (links[j][1] # s /\ Pending(links[j]))
             /\ <<started'[links[j][1]], links[j][2]>> = j
             /\ links[j] \in resolved' => ~Has(q1, End(j))
             /\ ~Before(q1, ReplyTo(links[j]), End(j))
        /\ \A d \in hears :
             \/ links[Id(d)'] = d \/ d \in silenced
             \/ d \in resolved' /\ Has(q1, End(Id(d)'))
             \/ Before(q1, ReplyTo(d), End(Id(d)'))
    <3>1. \A j \in LogIds : links[j] # NoId => <<started'[links[j][1]], links[j][2]>> = j
      BY <1>6, <2>5 DEF Id
    <3>2. \A d \in hears :
             \/ links[Id(d)'] = d \/ d \in silenced
             \/ d \in resolved' /\ Has(q1, End(Id(d)'))
             \/ Before(q1, ReplyTo(d), End(Id(d)'))
      BY <1>9, <2>6
    <3> QED BY <2>5, <3>1, <3>2
  <2>9. AskReady(s, n, started[s], links, q1)
    BY <2>2, <2>3, <2>4, <2>7, <2>8 DEF AskReady
  <2> HIDE DEF s
  <2> QED BY <1>0, <1>5, <1>6, <1>8, <2>1, <2>9, LoopKeeps DEF N
<1>11. isStreaming' \in BOOLEAN /\ strayed' \in BOOLEAN
  <2>1. CASE Kept(s)
    BY <1>7, <2>1, Zenon
  <2>2. CASE ~Kept(s)
    BY <1>7, <2>2, Zenon
  <2> QED BY <2>1, <2>2
<1>12. LogTypeOK'
  <2>1. logIds' \in [PodSet -> LogContexts \cup {NoId}]
    <3>1. CASE Kept(s)
      BY <1>0, <1>6, <3>1 DEF LogTypeOK
    <3>2. CASE ~Kept(s)
      BY <1>0, <1>6, <3>2 DEF LogTypeOK
    <3> QED BY <3>1, <3>2
  <2>2. resolved' \subseteq LogCalls
    BY <1>0, <1>6 DEF LogTypeOK
  <2> HIDE DEF s
  <2> QED BY <1>0, <1>6, <1>10, <1>11, <2>1, <2>2 DEF AskDone, LogTypeOK, N
<1>13. CleanersOK'
  <2>1. \A k : Has(inbox', Told(k)) => Has(inbox, Told(k))
    BY <1>2, <1>5, <1>10 DEF AskDone
  <2> QED BY <1>0, <1>6, <2>1 DEF CleanersOK
<1>14. \A t \in LogStarts : snapshot'[t] <= object'
  <2> SUFFICES ASSUME NEW t \in LogStarts PROVE snapshot'[t] <= object'
    OBVIOUS
  <2>1. object \in Nat /\ snapshot[t] \in Nat /\ snapshot[t] <= object /\ object' = object
    BY <1>0, <1>6 DEF LogTypeOK
  <2>2. snapshot'[t] = snapshot[t] \/ snapshot'[t] = object
    BY <1>10 DEF AskDone
  <2> QED BY <2>1, <2>2
<1>15. \A d \in LogCalls : Pending(d) /\ d # c => Pending(d)'
  BY <1>4, <1>10 DEF AskDone
<1>16. \A j \in LogIds : socket[j] = c => j = i
  BY <1>0 DEF CallsOK, i, LogTypeOK
<1>17. \A j \in LogIds : socket[j] # NoId => socket[j] \in LogCalls
  BY <1>0 DEF LogTypeOK
<1>18. ASSUME ~strayed', Kept(s) PROVE ShownOK'
  <2>1. /\ ~strayed
        /\ \A k \in Cleaners : cleaner[k].kind \notin {"due", "context", "clear", "removed"}
    BY <1>7, <1>18, Zenon
  <2>2. (\A t \in LogStarts : KeepsOK(t)) /\ \A j \in LogIds : SocketOK(j)
    BY <2>1 DEF LogInv, ShownOK
  <2>3. /\ isStreaming /\ started[s] = logContext
        /\ \A k \in Cleaners : cleaner[k].kind # "stop"
    BY <1>0, <1>3, <1>18, <2>1, <2>2 DEF KeepsOK, Keeps
  <2>4. \A k \in Cleaners : cleaner'[k].kind \notin {"context", "clear", "stop", "removed"}
                            /\ \A j : ~ToStop(k, j)
    BY <1>0, <1>6, <2>1, <2>3 DEF CleanersOK, Active, ToStop
  <2>5. \A j \in LogIds : InList(j)' <=> IF j[2] = c[2] THEN started[s] = j[1] ELSE InList(j)
    BY <1>0, <1>6, <1>18 DEF LogTypeOK, InList, LogIds
  <2>6. isStreaming'
    <3>1. logIds' # NoIds
      BY <1>0, <1>6, <1>18 DEF LogTypeOK, NoIds
    <3> QED BY <1>7, <2>3, <3>1, Zenon
  <2>7. ASSUME NEW t \in LogStarts PROVE KeepsOK(t)'
    <3>1. CASE t = s
      BY <1>6, <2>3, <2>4, <2>6, <3>1 DEF KeepsOK
    <3>2. CASE t # s
      <4>1. Keeps(t)' => Keeps(t)
        BY <1>6, <1>10, <3>2 DEF AskDone, Keeps, Kept, Looping
      <4> QED BY <1>6, <2>2, <2>4, <2>6, <4>1 DEF KeepsOK
    <3> QED BY <3>1, <3>2
  <2>8. ASSUME NEW j \in LogIds PROVE SocketOK(j)'
    <3>1. links[j] = socket[j]
      BY <1>8, <1>18
    <3>2. CASE socket'[j] # socket[j]
      BY <1>10, <3>1, <3>2 DEF AskDone, SocketOK
    <3>3. CASE socket'[j] = socket[j] /\ socket[j] # NoId /\ Pending(socket[j])
      <4>1. CASE socket[j] = c
        <5>1. j = i
          BY <1>16, <4>1
        <5>2. InList(j)' /\ j[1] = logContext'
          BY <1>0, <1>6, <2>3, <2>5, <5>1
        <5> QED BY <2>6, <5>2 DEF SocketOK
      <4>2. CASE socket[j] # c
        BY <1>15, <1>17, <3>3, <4>2 DEF SocketOK
      <4> QED BY <4>1, <4>2
    <3>4. CASE socket'[j] = socket[j] /\ InList(j) /\ j[1] = logContext
      BY <1>6, <2>3, <2>5, <2>6, <3>4 DEF SocketOK
    <3>5. CASE socket'[j] = socket[j] /\ socket[j] = NoId
      BY <3>5 DEF SocketOK
    <3> QED BY <2>2, <2>4, <3>2, <3>3, <3>4, <3>5 DEF SocketOK
  <2>9. \A k \in Cleaners : CleanerOK(k)'
    BY <2>4 DEF CleanerOK
  <2> QED BY <2>7, <2>8, <2>9 DEF ShownOK
<1>19. ASSUME ~strayed', ~Kept(s) PROVE ShownOK'
  <2>1. ~strayed /\ startAt[s] = N /\ (logIds = NoIds => \A t \in LogStarts \ {s} : ~Looping(t))
    BY <1>7, <1>19, Zenon
  <2>2. /\ \A t \in LogStarts : KeepsOK(t)
        /\ \A j \in LogIds : SocketOK(j)
        /\ \A k \in Cleaners : CleanerOK(k)
    BY <2>1 DEF LogInv, ShownOK
  <2>3. /\ socket' = links /\ logIds' = logIds
        /\ isStreaming /\ logIds # NoIds => isStreaming'
        /\ ~Looping(s)'
    <3>1. n = N + 1
      BY <2>1 DEF n
    <3>2. isStreaming /\ logIds # NoIds => isStreaming'
      BY <1>6, <1>7, <1>19, Zenon
    <3>3. startAt'[s] = N + 1
      BY <1>0, <1>10, <3>1 DEF AskDone, LogTypeOK
    <3>4. ~Looping(s)'
      BY <1>0, <3>3 DEF Looping, N
    <3>5. socket' = links /\ logIds' = logIds
      BY <1>6, <1>10, <1>19, <3>1 DEF AskDone, N
    <3> QED BY <3>2, <3>4, <3>5, Zenon
  <2>4. \A j \in LogIds : InList(j) => logIds # NoIds
    BY DEF InList, NoIds, LogIds
  <2>5. \A j : InList(j)' <=> InList(j)
    BY <2>3 DEF InList
  <2>6. ASSUME NEW j \in LogIds, socket'[j] # NoId
        PROVE  socket'[j] = socket[j] /\ (Pending(socket[j]) => Pending(socket[j])')
    <3>1. socket'[j] = socket[j] /\ j # i
      BY <1>8, <1>19, <2>3, <2>6
    <3> QED BY <1>15, <1>16, <1>17, <2>6, <3>1
  <2>7. \A k, j : ToStop(k, j)' <=> ToStop(k, j)
    BY <1>6 DEF ToStop
  <2>8. ASSUME NEW t \in LogStarts PROVE KeepsOK(t)'
    <3>1. CASE t = s
      BY <2>3, <3>1 DEF KeepsOK, Keeps
    <3>2. CASE t # s
      <4>1. Keeps(t)' => Keeps(t) /\ Looping(t)
        BY <1>6, <1>10, <3>2 DEF AskDone, Keeps, Kept, Looping
      <4> QED BY <1>6, <2>1, <2>2, <2>3, <3>2, <4>1 DEF KeepsOK
    <3> QED BY <3>1, <3>2
  <2>9. ASSUME NEW j \in LogIds PROVE SocketOK(j)'
    BY <1>6, <2>2, <2>3, <2>4, <2>5, <2>6, <2>7 DEF SocketOK
  <2>10. ASSUME NEW k \in Cleaners PROVE CleanerOK(k)'
    BY <1>6, <2>2, <2>3, <2>5, <2>6, <2>7 DEF CleanerOK
  <2> QED BY <2>8, <2>9, <2>10 DEF ShownOK
<1> QED BY <1>10, <1>12, <1>13, <1>14, <1>18, <1>19 DEF AskDone, LogInv

\* Every step of the view, its pods and the main process keeps the invariant.
LEMMA LogNextKeeps == LogInv /\ [LogNext]_logVars => LogInv'
<1> SUFFICES ASSUME LogInv, [LogNext]_logVars PROVE LogInv'
  OBVIOUS
<1>1. ASSUME NEW s \in LogStarts, StartStreaming(s) PROVE LogInv'
  BY <1>1, StartKeeps
<1>2. ASSUME NEW c \in LogCalls, LogReply(c) PROVE LogInv'
  BY <1>2, ReplyKeeps
<1>3. ASSUME NEW i \in LogIds, SocketCloses(i) \/ HearEnd(i) PROVE LogInv'
  BY <1>3, SocketClosesKeeps, HearEndKeeps
<1>4. ASSUME NEW k \in Cleaners, StopAllStreams(k) \/ SyncPods(k) \/ Stopped(k) PROVE LogInv'
  BY <1>4, StopAllKeeps, SyncKeeps, RemovedKeeps, StoppedKeeps
<1>5. ASSUME NEW k \in Cleaners, NEW what \in {"context", "clear"}, Clear(k, what) PROVE LogInv'
  BY <1>5, ClearLogsKeeps
<1>6. ASSUME NEW k \in Cleaners, NEW to \in LogContexts, SwitchLogs(to, k) PROVE LogInv'
  BY <1>6, SwitchLogsKeeps
<1>7. ASSUME UNCHANGED logVars PROVE LogInv'
  BY <1>7 DEF LogInv, LogTypeOK, MailOK, CallsOK, EndsOK, CleanersOK, ShownOK, KeepsOK, SocketOK,
              CleanerOK, Keeps, Kept, Looping, Pending, Id, InList, ToStop, logVars, viewVars
<1> QED BY <1>1, <1>2, <1>3, <1>4, <1>5, <1>6, <1>7 DEF LogNext

\* However starts, replies, ends, stops and changes of context interleave: at rest the log
\* view shows every open stream as streaming and can stop it, unless a start strayed, and
\* every line is heard once.
THEOREM StreamLogsHold == LogSpec => []LogsTrue
<1>1. LogInit => LogInv
  BY LogBegins
<1>2. LogInv /\ [LogNext]_logVars => LogInv'
  BY LogNextKeeps
<1>3. LogInv => LogsTrue
  BY LogInvTells
<1> QED BY <1>1, <1>2, <1>3, PTL DEF LogSpec

(***************************************************************************)
(* PodPanel: the log stream and the events of a pod                        *)
(***************************************************************************)

StartRecords == [on: ContainerSet, phase: {"stopping", "asked", "over"}]
PodLetters == ({"reply", "stopped"} \X Nat) \cup ({"end"} \X ContainerSet)
\* The stream as a record.  A socket is of a start.
StreamShapes == [wires: [ContainerSet -> Nat], queue: Seq(PodLetters), starts: Seq(StartRecords)]
StreamRecords ==
  {x \in StreamShapes : \A c \in ContainerSet : x.wires[c] <= Len(x.starts)}
\* The messages that may be on their way more than once.
PodRepeats == ({"end"} \X ContainerSet) \cup {<<"stopped", 0>>}

ReplyOf(k) == <<"reply", k>>
EndFor(c) == <<"end", c>>
StopOf(k) == <<"stopped", k>>

\* A start is under way: it awaits the stop of a stream before it, or its reply.
Under(x, k) == k \in DOMAIN x.starts /\ x.starts[k].phase # "over"
StartAsked(x, k) == k \in DOMAIN x.starts /\ x.starts[k].phase = "asked"
Stopping(x, k) == k \in DOMAIN x.starts /\ x.starts[k].phase = "stopping"

\* A reply is to come for each start that awaits one, and a stop for each start that
\* awaits that; `fresh' is a start that is just being made.
CallOK(x, fresh) ==
  /\ OnceIn(x.queue, PodRepeats)
  /\ \A k \in Nat : Has(x.queue, ReplyOf(k)) <=> StartAsked(x, k)
  /\ \A k \in Nat \ {0} : Has(x.queue, StopOf(k)) <=> Stopping(x, k) /\ k # fresh

\* One start is under way, and no stream is known while its reply is awaited.
AloneOK(x, active) ==
  /\ \A j, k \in DOMAIN x.starts : Under(x, j) /\ Under(x, k) => j = k
  /\ \A k \in DOMAIN x.starts : StartAsked(x, k) => active = NoStream

\* A socket is of a start that awaits its reply, which comes after every end of before,
\* or it is of the stream that is known, heard and can be stopped.
WireOK(x, active, there, listening, fresh, c) ==
  LET k == x.wires[c]
  IN  k # 0 =>
        /\ k \in DOMAIN x.starts /\ x.starts[k].on = c
        /\ ~Before(x.queue, ReplyOf(k), EndFor(c))
        /\ \/ StartAsked(x, k)
           \/ /\ active = c /\ there /\ k \in listening /\ x.starts[k].phase = "over"
              /\ ~Has(x.queue, StopOf(0)) /\ ~Has(x.queue, EndFor(c))
              /\ \A j \in DOMAIN x.starts : Stopping(x, j) => j = fresh

\* No stop of before comes after the reply of a start.  Whoever hears has a socket, or
\* its end is to come.
HearOK(x, listening) ==
  /\ \A k \in DOMAIN x.starts : ~Before(x.queue, ReplyOf(k), StopOf(0))
  /\ listening \subseteq DOMAIN x.starts
  /\ \A k \in listening :
       x.wires[x.starts[k].on] = k \/ Has(x.queue, EndFor(x.starts[k].on))
  /\ \A k \in DOMAIN x.starts : StartAsked(x, k) =>
       \/ x.wires[x.starts[k].on] = k
       \/ Before(x.queue, ReplyOf(k), EndFor(x.starts[k].on))

PodOK(x, active, there, listening, fresh) ==
  /\ AloneOK(x, active) /\ HearOK(x, listening)
  /\ \A c \in ContainerSet : WireOK(x, active, there, listening, fresh, c)

\* What the button says while nothing odd has happened.
ButtonOK ==
  /\ streaming <=> activeStream # NoStream \/ InFlight # {}
  /\ \A k \in InFlight : streamStarts[k].phase = "asked"
  /\ Has(replies, StopOf(0)) => InFlight = {}

\* Streams are started one at a time: unless one was started while another was under way.
CalmOK ==
  "startedTwice" \notin oddly =>
    /\ PodOK(StreamNow, activeStream, panel.mounted, hearing, 0)
    /\ \A c \in ContainerSet : linesShown[c] <= 1
    /\ panel.mounted /\ {"stoppedEarly", "startedWhileStopping"} \cap oddly = {} => ButtonOK

\* Streams and lines are of the container selected.
ContainerOK ==
  /\ \A k \in InFlight : streamStarts[k].on = panel.container
  /\ activeStream \in {NoStream, panel.container}
  /\ \A c \in ContainerSet : c # panel.container => linesShown[c] = 0
PlaceOK == {"containerWhileStarting", "containerReset"} \cap oddly = {} => ContainerOK

\* Events that are there are shown.
PodEventsOK ==
  panel.mounted /\ ~podEvents.live =>
     ((panel.tab = "lifecycle" \/ podEvents.loaded) => podEvents.shown /\ ~podEvents.loading)
TabOK == {"tabLeft", "eventsEmptied", "eventsFailed"} \cap oddly = {} => PodEventsOK

\* The parts of the panel but for the stream.
PodRest ==
  /\ panel \in [mounted: BOOLEAN, container: ContainerSet, tab: Tabs]
  /\ activeStream \in ContainerSet \cup {NoStream} /\ streaming \in BOOLEAN
  /\ linesShown \in [ContainerSet -> Nat]
  /\ podEvents \in [loaded: BOOLEAN, loading: BOOLEAN, shown: BOOLEAN, live: BOOLEAN]
  /\ panelClicks \in 0..MaxPanelClicks /\ polls \in 0..MaxPolls
PodBase ==
  /\ PodRest /\ StreamNow \in StreamRecords /\ hearing \subseteq DOMAIN streamStarts
  /\ CallOK(StreamNow, 0)

\* The inductive invariant of the panel of a pod.
PodInv == PodBase /\ CalmOK /\ PlaceOK /\ TabOK

--------------------------------------------------------------------------

\* Messages of different kinds differ.
LEMMA PodLettersDiffer ==
  /\ \A j, c : ReplyOf(j) # EndFor(c) /\ EndFor(c) # ReplyOf(j)
  /\ \A j, k : ReplyOf(j) # StopOf(k) /\ StopOf(k) # ReplyOf(j)
  /\ \A c, k : EndFor(c) # StopOf(k) /\ StopOf(k) # EndFor(c)
  /\ \A j, k : ReplyOf(j) = ReplyOf(k) => j = k
  /\ \A j, k : StopOf(j) = StopOf(k) => j = k
  /\ \A c, d : EndFor(c) = EndFor(d) => c = d
  /\ \A k \in Nat : ReplyOf(k) \in PodLetters /\ StopOf(k) \in PodLetters
  /\ \A c \in ContainerSet : EndFor(c) \in PodLetters /\ EndFor(c) \in PodRepeats
  /\ \A k : ReplyOf(k) \notin PodRepeats
  /\ \A k : k # 0 => StopOf(k) \notin PodRepeats
  /\ StopOf(0) \in PodRepeats
<1>1. /\ \A j, c : ReplyOf(j) # EndFor(c) /\ EndFor(c) # ReplyOf(j)
      /\ \A j, k : ReplyOf(j) # StopOf(k) /\ StopOf(k) # ReplyOf(j)
      /\ \A c, k : EndFor(c) # StopOf(k) /\ StopOf(k) # EndFor(c)
      /\ \A j, k : ReplyOf(j) = ReplyOf(k) => j = k
      /\ \A j, k : StopOf(j) = StopOf(k) => j = k
      /\ \A c, d : EndFor(c) = EndFor(d) => c = d
  BY DEF ReplyOf, EndFor, StopOf
<1>2. /\ \A k \in Nat : ReplyOf(k) \in PodLetters /\ StopOf(k) \in PodLetters
      /\ \A c \in ContainerSet : EndFor(c) \in PodLetters /\ EndFor(c) \in PodRepeats
  BY DEF ReplyOf, EndFor, StopOf, PodLetters, PodRepeats
<1>3. /\ \A k : ReplyOf(k) \notin PodRepeats
      /\ \A k : k # 0 => StopOf(k) \notin PodRepeats
      /\ StopOf(0) \in PodRepeats
  BY DEF ReplyOf, StopOf, PodRepeats
<1> QED BY <1>1, <1>2, <1>3

\* The parts of a stream.
LEMMA StreamParts ==
  ASSUME NEW x \in StreamRecords
  PROVE  /\ x.wires \in [ContainerSet -> Nat] /\ x.queue \in Seq(PodLetters)
         /\ x.starts \in Seq(StartRecords) /\ Len(x.starts) \in Nat
         /\ DOMAIN x.starts = 1..Len(x.starts)
         /\ \A k \in DOMAIN x.starts :
              /\ x.starts[k] \in StartRecords /\ x.starts[k].on \in ContainerSet
              /\ x.starts[k].phase \in {"stopping", "asked", "over"}
         /\ \A c \in ContainerSet : x.wires[c] \in Nat /\ x.wires[c] <= Len(x.starts)
         /\ x = [wires |-> x.wires, queue |-> x.queue, starts |-> x.starts]
         /\ x \in StreamShapes
<1>1. /\ x \in StreamShapes
      /\ \A c \in ContainerSet : x.wires[c] <= Len(x.starts)
  BY DEF StreamRecords
<1>2. /\ x.wires \in [ContainerSet -> Nat] /\ x.queue \in Seq(PodLetters)
      /\ x.starts \in Seq(StartRecords)
      /\ x = [wires |-> x.wires, queue |-> x.queue, starts |-> x.starts]
  BY <1>1 DEF StreamShapes
<1>3. /\ Len(x.starts) \in Nat /\ DOMAIN x.starts = 1..Len(x.starts)
      /\ \A k \in DOMAIN x.starts : x.starts[k] \in StartRecords
  BY <1>2
<1>4. \A r \in StartRecords : r.on \in ContainerSet /\ r.phase \in {"stopping", "asked", "over"}
  BY DEF StartRecords
<1> QED BY <1>1, <1>2, <1>3, <1>4

\* A message is sent.
LEMMA Replying ==
  ASSUME NEW x \in StreamRecords, NEW e \in PodLetters
  PROVE  /\ Reply(x, e) \in StreamRecords /\ Reply(x, e).queue = Append(x.queue, e)
         /\ Reply(x, e).wires = x.wires /\ Reply(x, e).starts = x.starts
<1>0. /\ x \in StreamShapes
      /\ x.wires \in [ContainerSet -> Nat] /\ x.queue \in Seq(PodLetters)
      /\ x.starts \in Seq(StartRecords) /\ \A c \in ContainerSet : x.wires[c] <= Len(x.starts)
  BY StreamParts
<1>2. Append(x.queue, e) \in Seq(PodLetters)
  BY <1>0
<1>3. /\ Reply(x, e) \in StreamShapes /\ Reply(x, e).queue = Append(x.queue, e)
      /\ Reply(x, e).wires = x.wires /\ Reply(x, e).starts = x.starts
  BY <1>0, <1>2 DEF Reply, StreamShapes
<1>4. Reply(x, e) \in StreamRecords
  BY <1>0, <1>3 DEF StreamRecords
<1> QED BY <1>3, <1>4

\* A message is heard.
Hearing(x) == [x EXCEPT !.queue = Tail(@)]

LEMMA HearingParts ==
  ASSUME NEW x \in StreamRecords, x.queue # <<>>
  PROVE  /\ Hearing(x) \in StreamRecords /\ Hearing(x).queue = Tail(x.queue)
         /\ Hearing(x).wires = x.wires /\ Hearing(x).starts = x.starts
<1>0. /\ x \in StreamShapes
      /\ x.wires \in [ContainerSet -> Nat] /\ x.queue \in Seq(PodLetters)
      /\ x.starts \in Seq(StartRecords) /\ \A c \in ContainerSet : x.wires[c] <= Len(x.starts)
  BY StreamParts
<1>2. Tail(x.queue) \in Seq(PodLetters)
  BY StreamParts, HasTail
<1>3. /\ Hearing(x) \in StreamShapes /\ Hearing(x).queue = Tail(x.queue)
      /\ Hearing(x).wires = x.wires /\ Hearing(x).starts = x.starts
  BY <1>0, <1>2 DEF Hearing, StreamShapes
<1>4. Hearing(x) \in StreamRecords
  BY <1>0, <1>3 DEF StreamRecords
<1> QED BY <1>3, <1>4

\* A start reaches a phase.
Turned(x, k, p) == [x EXCEPT !.starts[k].phase = p]

LEMMA Turning ==
  ASSUME NEW x \in StreamRecords, NEW k \in DOMAIN x.starts,
         NEW p \in {"stopping", "asked", "over"}
  PROVE  /\ Turned(x, k, p) \in StreamRecords
         /\ Turned(x, k, p).wires = x.wires /\ Turned(x, k, p).queue = x.queue
         /\ DOMAIN Turned(x, k, p).starts = DOMAIN x.starts
         /\ Len(Turned(x, k, p).starts) = Len(x.starts)
         /\ \A j \in DOMAIN x.starts :
              /\ Turned(x, k, p).starts[j].on = x.starts[j].on
              /\ Turned(x, k, p).starts[j].phase = IF j = k THEN p ELSE x.starts[j].phase
<1> DEFINE s == [x.starts EXCEPT ![k].phase = p]
<1>0. /\ x \in StreamShapes
      /\ x.wires \in [ContainerSet -> Nat] /\ x.queue \in Seq(PodLetters)
      /\ x.starts \in Seq(StartRecords) /\ \A c \in ContainerSet : x.wires[c] <= Len(x.starts)
  BY StreamParts
<1>2. x.starts[k] \in StartRecords /\ [x.starts[k] EXCEPT !.phase = p] \in StartRecords
  <2>1. x.starts[k] \in StartRecords
    BY StreamParts
  <2> QED BY <2>1 DEF StartRecords
<1>3. /\ s \in Seq(StartRecords) /\ Len(s) = Len(x.starts) /\ DOMAIN s = DOMAIN x.starts
      /\ \A j \in DOMAIN x.starts :
            s[j] = IF j = k THEN [x.starts[k] EXCEPT !.phase = p] ELSE x.starts[j]
  BY <1>0, <1>2
<1>4. [x.starts[k] EXCEPT !.phase = p].on = x.starts[k].on
      /\ [x.starts[k] EXCEPT !.phase = p].phase = p
  BY <1>2 DEF StartRecords
<1>1. /\ Turned(x, k, p) \in StreamShapes /\ Turned(x, k, p).starts = s
      /\ Turned(x, k, p).wires = x.wires /\ Turned(x, k, p).queue = x.queue
  BY <1>0, <1>3 DEF Turned, StreamShapes
<1> HIDE DEF s
<1>5. Turned(x, k, p) \in StreamRecords
  BY <1>0, <1>1, <1>3 DEF StreamRecords
<1>6. \A j \in DOMAIN x.starts :
        s[j].on = x.starts[j].on /\ s[j].phase = IF j = k THEN p ELSE x.starts[j].phase
  BY <1>3, <1>4
<1> QED BY <1>1, <1>3, <1>5, <1>6

\* A socket is closed, and its end sent.
LEMMA Closing ==
  ASSUME NEW x \in StreamRecords, NEW id \in ContainerSet, OnceIn(x.queue, PodRepeats)
  PROVE  LET y == CloseWire(x, id)
         IN  /\ y \in StreamRecords /\ y.starts = x.starts /\ y.wires[id] = 0
             /\ \A c \in ContainerSet : c # id => y.wires[c] = x.wires[c]
             /\ OnceIn(y.queue, PodRepeats)
             /\ \A k : Has(y.queue, ReplyOf(k)) <=> Has(x.queue, ReplyOf(k))
             /\ \A k : Has(y.queue, StopOf(k)) <=> Has(x.queue, StopOf(k))
             /\ \A c : Has(y.queue, EndFor(c)) <=>
                         Has(x.queue, EndFor(c)) \/ (c = id /\ x.wires[id] # 0)
             /\ \A k, c : Before(y.queue, ReplyOf(k), EndFor(c)) <=>
                            \/ Before(x.queue, ReplyOf(k), EndFor(c))
                            \/ Has(x.queue, ReplyOf(k)) /\ c = id /\ x.wires[id] # 0
             /\ \A k, j : Before(y.queue, ReplyOf(k), StopOf(j)) <=>
                            Before(x.queue, ReplyOf(k), StopOf(j))
<1> DEFINE y == CloseWire(x, id)
           q == Append(x.queue, EndFor(id))
<1>0. /\ x \in StreamShapes /\ x.wires \in [ContainerSet -> Nat] /\ x.queue \in Seq(PodLetters)
      /\ x.starts \in Seq(StartRecords) /\ Len(x.starts) \in Nat
      /\ \A c \in ContainerSet : x.wires[c] <= Len(x.starts)
  BY StreamParts
<1>1. CASE x.wires[id] = 0
  <2>1. y = x
    BY <1>1 DEF CloseWire
  <2> HIDE DEF y
  <2> QED BY <1>1, <2>1 DEF y
<1>2. CASE x.wires[id] # 0
  <2>1. /\ q \in Seq(PodLetters) /\ OnceIn(q, PodRepeats)
        /\ \A m : Has(q, m) <=> Has(x.queue, m) \/ m = EndFor(id)
        /\ \A m, n : Before(q, m, n) <=>
                Before(x.queue, m, n) \/ (Has(x.queue, m) /\ n = EndFor(id))
    <3>1. EndFor(id) \in PodLetters /\ EndFor(id) \in PodRepeats
      BY PodLettersDiffer
    <3> QED BY <1>0, <3>1, SentLast
  <2>2. /\ y \in StreamShapes /\ y.starts = x.starts /\ y.queue = q
        /\ y.wires = [x.wires EXCEPT ![id] = 0]
    <3>1. y = [x EXCEPT !.wires[id] = 0, !.queue = Append(@, EndFor(id))]
      BY <1>2 DEF CloseWire, EndFor
    <3> HIDE DEF y
    <3>2. [x.wires EXCEPT ![id] = 0] \in [ContainerSet -> Nat]
      BY <1>0
    <3> QED BY <1>0, <2>1, <3>1, <3>2 DEF StreamShapes
  <2> HIDE DEF y, q
  <2>3. y.wires[id] = 0 /\ \A c \in ContainerSet : c # id => y.wires[c] = x.wires[c]
    BY <1>0, <2>2
  <2>4. \A c \in ContainerSet : y.wires[c] <= Len(y.starts)
    BY <1>0, <2>2, <2>3
  <2>5. y \in StreamRecords
    BY <2>2, <2>4 DEF StreamRecords
  <2>6. /\ \A k : Has(y.queue, ReplyOf(k)) <=> Has(x.queue, ReplyOf(k))
        /\ \A k : Has(y.queue, StopOf(k)) <=> Has(x.queue, StopOf(k))
        /\ \A c : Has(y.queue, EndFor(c)) <=> Has(x.queue, EndFor(c)) \/ c = id
    BY <2>1, <2>2, PodLettersDiffer
  <2>7. /\ \A k, c : Before(y.queue, ReplyOf(k), EndFor(c)) <=>
                       \/ Before(x.queue, ReplyOf(k), EndFor(c))
                       \/ Has(x.queue, ReplyOf(k)) /\ c = id
        /\ \A k, j : Before(y.queue, ReplyOf(k), StopOf(j)) <=>
                       Before(x.queue, ReplyOf(k), StopOf(j))
    BY <2>1, <2>2, PodLettersDiffer
  <2>8. OnceIn(y.queue, PodRepeats)
    BY <2>1, <2>2
  <2> QED BY <1>2, <2>2, <2>3, <2>5, <2>6, <2>7, <2>8 DEF y
<1> QED BY <1>1, <1>2

\* Closing a socket keeps what holds of calls and of streams.
LEMMA PodClosedKeeps ==
  ASSUME NEW x \in StreamRecords, NEW id \in ContainerSet, NEW fresh, CallOK(x, fresh)
  PROVE  /\ CloseWire(x, id) \in StreamRecords /\ CallOK(CloseWire(x, id), fresh)
         /\ CloseWire(x, id).starts = x.starts /\ CloseWire(x, id).wires[id] = 0
         /\ \A c \in ContainerSet : c # id => CloseWire(x, id).wires[c] = x.wires[c]
         /\ \A k : Has(CloseWire(x, id).queue, StopOf(k)) <=> Has(x.queue, StopOf(k))
         /\ \A active, there, listening : PodOK(x, active, there, listening, fresh) =>
                                         PodOK(CloseWire(x, id), active, there, listening, fresh)
<1> DEFINE y == CloseWire(x, id)
<1>1. /\ y \in StreamRecords /\ y.starts = x.starts /\ y.wires[id] = 0
      /\ \A c \in ContainerSet : c # id => y.wires[c] = x.wires[c]
      /\ OnceIn(y.queue, PodRepeats)
      /\ \A k : Has(y.queue, ReplyOf(k)) <=> Has(x.queue, ReplyOf(k))
      /\ \A k : Has(y.queue, StopOf(k)) <=> Has(x.queue, StopOf(k))
      /\ \A c : Has(y.queue, EndFor(c)) <=>
                  Has(x.queue, EndFor(c)) \/ (c = id /\ x.wires[id] # 0)
      /\ \A k, c : Before(y.queue, ReplyOf(k), EndFor(c)) <=>
                     \/ Before(x.queue, ReplyOf(k), EndFor(c))
                     \/ Has(x.queue, ReplyOf(k)) /\ c = id /\ x.wires[id] # 0
      /\ \A k, j : Before(y.queue, ReplyOf(k), StopOf(j)) <=> Before(x.queue, ReplyOf(k), StopOf(j))
  BY Closing DEF CallOK
<1> HIDE DEF y
<1>2. \A k : /\ StartAsked(y, k) <=> StartAsked(x, k)
             /\ Stopping(y, k) <=> Stopping(x, k)
             /\ Under(y, k) <=> Under(x, k)
  BY <1>1 DEF StartAsked, Stopping, Under
<1>3. CallOK(y, fresh)
  BY <1>1, <1>2 DEF CallOK
<1>4. ASSUME NEW active, NEW there, NEW listening, PodOK(x, active, there, listening, fresh)
      PROVE  PodOK(y, active, there, listening, fresh)
  <2>1. AloneOK(y, active)
    BY <1>1, <1>2, <1>4 DEF PodOK, AloneOK
  <2>2. HearOK(y, listening)
    <3>1. \A k \in DOMAIN y.starts : ~Before(y.queue, ReplyOf(k), StopOf(0))
      BY <1>1, <1>4 DEF PodOK, HearOK
    <3>2. listening \subseteq DOMAIN y.starts
      BY <1>1, <1>4 DEF PodOK, HearOK
    <3>3. ASSUME NEW k \in listening
          PROVE  y.wires[y.starts[k].on] = k \/ Has(y.queue, EndFor(y.starts[k].on))
      <4>1. /\ k \in DOMAIN x.starts /\ k \in Nat /\ k # 0 /\ x.starts[k].on \in ContainerSet
            /\ x.wires[x.starts[k].on] = k \/ Has(x.queue, EndFor(x.starts[k].on))
        BY <1>4, <3>3, StreamParts DEF PodOK, HearOK
      <4> QED BY <1>1, <4>1
    <3>4. ASSUME NEW k \in DOMAIN y.starts, StartAsked(y, k)
          PROVE  \/ y.wires[y.starts[k].on] = k
                 \/ Before(y.queue, ReplyOf(k), EndFor(y.starts[k].on))
      <4>1. /\ k \in DOMAIN x.starts /\ k \in Nat /\ k # 0 /\ x.starts[k].on \in ContainerSet
        BY <1>1, <3>4, StreamParts
      <4>2. /\ x.wires[x.starts[k].on] = k \/ Before(x.queue, ReplyOf(k), EndFor(x.starts[k].on))
        BY <1>2, <1>4, <3>4, <4>1 DEF PodOK, HearOK
      <4>3. Has(x.queue, ReplyOf(k))
        BY <1>2, <3>4, <4>1 DEF CallOK
      <4> QED BY <1>1, <4>1, <4>2, <4>3
    <3> QED BY <3>1, <3>2, <3>3, <3>4 DEF HearOK
  <2>3. ASSUME NEW c \in ContainerSet PROVE WireOK(y, active, there, listening, fresh, c)
    <3>1. CASE c = id
      BY <1>1, <3>1 DEF WireOK
    <3>2. CASE c # id
      <4>1. WireOK(x, active, there, listening, fresh, c)
        BY <1>4 DEF PodOK
      <4> QED BY <1>1, <1>2, <3>2, <4>1 DEF WireOK
    <3> QED BY <3>1, <3>2
  <2> QED BY <2>1, <2>2, <2>3 DEF PodOK
<1> QED BY <1>1, <1>3, <1>4 DEF y

\* With every open socket awaiting its reply, no stream need be known.
LEMMA NoneKnown ==
  ASSUME NEW x, NEW active, NEW there, NEW listening, NEW fresh,
         PodOK(x, active, there, listening, fresh),
         \A c \in ContainerSet : x.wires[c] = 0 \/ StartAsked(x, x.wires[c])
  PROVE  \A on, other : PodOK(x, NoStream, on, listening, other)
<1>1. AloneOK(x, NoStream)
  BY DEF PodOK, AloneOK
<1>2. \A on, other : \A c \in ContainerSet : WireOK(x, NoStream, on, listening, other, c)
  BY DEF PodOK, WireOK
<1> QED BY <1>1, <1>2 DEF PodOK

\* The stream that is known is closed.
LEMMA KnownClosed ==
  ASSUME NEW x \in StreamRecords, NEW id \in ContainerSet,
         NEW there, NEW listening, NEW fresh,
         CallOK(x, fresh), PodOK(x, id, there, listening, fresh)
  PROVE  /\ \A c \in ContainerSet : CloseWire(x, id).wires[c] = 0
         /\ \A k : ~StartAsked(x, k)
         /\ \A on, other : PodOK(CloseWire(x, id), NoStream, on, listening, other)
<1>1. id # NoStream
  BY PodAssumption
<1>2. \A k : ~StartAsked(x, k)
  BY <1>1 DEF PodOK, AloneOK, StartAsked
<1>3. \A c \in ContainerSet : c # id => x.wires[c] = 0
  BY <1>2 DEF PodOK, WireOK
<1>4. /\ \A c \in ContainerSet : CloseWire(x, id).wires[c] = 0
      /\ PodOK(CloseWire(x, id), id, there, listening, fresh)
  BY <1>3, PodClosedKeeps
<1>5. \A on, other : PodOK(CloseWire(x, id), NoStream, on, listening, other)
  BY <1>4, NoneKnown
<1> QED BY <1>2, <1>4, <1>5

\* A start is made.
StartBegun(x, c) == [x EXCEPT !.starts = Append(@, [on |-> c, phase |-> "stopping"])]

LEMMA Beginning ==
  ASSUME NEW x \in StreamRecords, NEW c \in ContainerSet
  PROVE  LET k == Len(x.starts) + 1
         IN  /\ StartBegun(x, c) \in StreamRecords
             /\ StartBegun(x, c).wires = x.wires /\ StartBegun(x, c).queue = x.queue
             /\ k \in Nat /\ k # 0 /\ k \notin DOMAIN x.starts
             /\ DOMAIN StartBegun(x, c).starts = DOMAIN x.starts \cup {k}
             /\ Len(StartBegun(x, c).starts) = k
             /\ \A j \in DOMAIN x.starts : StartBegun(x, c).starts[j] = x.starts[j]
             /\ StartBegun(x, c).starts[k].on = c /\ StartBegun(x, c).starts[k].phase = "stopping"
<1> DEFINE k == Len(x.starts) + 1
           r == [on |-> c, phase |-> "stopping"]
           s == Append(x.starts, r)
<1>0. /\ x \in StreamShapes /\ x.wires \in [ContainerSet -> Nat] /\ x.queue \in Seq(PodLetters)
      /\ x.starts \in Seq(StartRecords) /\ Len(x.starts) \in Nat
      /\ DOMAIN x.starts = 1..Len(x.starts)
      /\ \A d \in ContainerSet : x.wires[d] <= Len(x.starts) /\ x.wires[d] \in Nat
  BY StreamParts
<1>1. r \in StartRecords /\ r.on = c /\ r.phase = "stopping"
  BY DEF StartRecords
<1> HIDE DEF r
<1>2. /\ s \in Seq(StartRecords) /\ Len(s) = k /\ DOMAIN s = 1..k
      /\ \A j \in 1..Len(x.starts) : s[j] = x.starts[j]
      /\ s[k] = r
  BY <1>0, <1>1
<1>3. k \in Nat /\ k # 0 /\ k \notin 1..Len(x.starts) /\ 1..k = 1..Len(x.starts) \cup {k}
  BY <1>0
<1>4. /\ StartBegun(x, c) \in StreamShapes /\ StartBegun(x, c).starts = s
      /\ StartBegun(x, c).wires = x.wires /\ StartBegun(x, c).queue = x.queue
  <2> HIDE DEF s
  <2>1. StartBegun(x, c) = [x EXCEPT !.starts = s]
    BY DEF StartBegun, s, r
  <2> QED BY <1>0, <1>2, <2>1 DEF StreamShapes
<1> HIDE DEF s
<1>5. \A d \in ContainerSet : x.wires[d] <= k
  BY <1>0
<1>6. StartBegun(x, c) \in StreamRecords
  BY <1>2, <1>4, <1>5 DEF StreamRecords
<1> QED BY <1>0, <1>1, <1>2, <1>3, <1>4, <1>6

\* A start that is made is all that is under way, and awaits no message yet.
LEMMA BegunKeeps ==
  ASSUME NEW x \in StreamRecords, NEW c \in ContainerSet, CallOK(x, 0)
  PROVE  LET k == Len(x.starts) + 1
         IN  /\ CallOK(StartBegun(x, c), k) /\ Stopping(StartBegun(x, c), k)
             /\ \A active, there, listening :
                  PodOK(x, active, there, listening, 0) /\ (\A j : ~Under(x, j)) =>
                    PodOK(StartBegun(x, c), active, there, listening, k)
<1> DEFINE k == Len(x.starts) + 1
           y == StartBegun(x, c)
<1>1. /\ y \in StreamRecords /\ y.wires = x.wires /\ y.queue = x.queue
      /\ k \in Nat /\ k # 0 /\ k \notin DOMAIN x.starts
      /\ DOMAIN y.starts = DOMAIN x.starts \cup {k}
      /\ \A j \in DOMAIN x.starts : y.starts[j] = x.starts[j]
      /\ y.starts[k].on = c /\ y.starts[k].phase = "stopping"
  BY Beginning
<1> HIDE DEF k, y
<1>2. /\ \A j : StartAsked(y, j) <=> StartAsked(x, j)
      /\ \A j : Stopping(y, j) <=> Stopping(x, j) \/ j = k
      /\ \A j : Under(y, j) <=> Under(x, j) \/ j = k
      /\ ~Stopping(x, k)
  BY <1>1 DEF StartAsked, Stopping, Under
<1>3. CallOK(y, k)
  <2>1. \A j \in Nat : Has(y.queue, ReplyOf(j)) <=> StartAsked(y, j)
    BY <1>1, <1>2 DEF CallOK
  <2>2. \A j \in Nat \ {0} : Has(y.queue, StopOf(j)) <=> Stopping(y, j) /\ j # k
    <3>1. \A j : Stopping(x, j) => j # 0
      BY StreamParts DEF Stopping
    <3> QED BY <1>1, <1>2, <3>1 DEF CallOK
  <2> QED BY <1>1, <2>1, <2>2 DEF CallOK
<1>4. ASSUME NEW active, NEW there, NEW listening,
             PodOK(x, active, there, listening, 0), \A j : ~Under(x, j)
      PROVE  PodOK(y, active, there, listening, k)
  <2>0. /\ \A j : ~StartAsked(y, j)
        /\ \A j : Stopping(y, j) => j = k
    BY <1>2, <1>4 DEF Under, StartAsked, Stopping
  <2>1. AloneOK(y, active)
    BY <1>2, <1>4, <2>0 DEF AloneOK
  <2>2. HearOK(y, listening)
    <3>1. ASSUME NEW j \in DOMAIN y.starts PROVE ~Before(y.queue, ReplyOf(j), StopOf(0))
      <4>1. j \in Nat
        BY <1>1, StreamParts
      <4>2. ~Has(y.queue, ReplyOf(j))
        BY <1>3, <2>0, <4>1 DEF CallOK
      <4> QED BY <4>2, BeforeHas
    <3>2. listening \subseteq DOMAIN y.starts
      BY <1>1, <1>4 DEF PodOK, HearOK
    <3>3. \A j \in listening : y.wires[y.starts[j].on] = j \/ Has(y.queue, EndFor(y.starts[j].on))
      BY <1>1, <1>4 DEF PodOK, HearOK
    <3> QED BY <2>0, <3>1, <3>2, <3>3 DEF HearOK
  <2>3. ASSUME NEW d \in ContainerSet PROVE WireOK(y, active, there, listening, k, d)
    <3>1. WireOK(x, active, there, listening, 0, d)
      BY <1>4 DEF PodOK
    <3> QED BY <1>1, <1>2, <2>0, <3>1 DEF WireOK
  <2> QED BY <2>1, <2>2, <2>3 DEF PodOK
<1> QED BY <1>2, <1>3, <1>4 DEF y, k

\* The stop of a stream is asked for, for a start.
LEMMA StopAsked ==
  ASSUME NEW x \in StreamRecords, NEW k, Stopping(x, k), CallOK(x, k)
  PROVE  /\ Reply(x, StopOf(k)) \in StreamRecords /\ CallOK(Reply(x, StopOf(k)), 0)
         /\ Reply(x, StopOf(k)).starts = x.starts
         /\ \A active, there, listening :
              PodOK(x, active, there, listening, k) /\ (\A c \in ContainerSet : x.wires[c] = 0) =>
                PodOK(Reply(x, StopOf(k)), active, there, listening, 0)
<1> DEFINE y == Reply(x, StopOf(k))
<1>0. k \in Nat /\ k # 0 /\ k \in DOMAIN x.starts
  BY StreamParts DEF Stopping
<1>1. /\ y \in StreamRecords /\ y.wires = x.wires /\ y.starts = x.starts
      /\ y.queue = Append(x.queue, StopOf(k))
  BY <1>0, Replying, PodLettersDiffer
<1> HIDE DEF y
<1>2. /\ OnceIn(y.queue, PodRepeats)
      /\ \A m : Has(y.queue, m) <=> Has(x.queue, m) \/ m = StopOf(k)
      /\ \A m, n : Before(y.queue, m, n) <=>
              Before(x.queue, m, n) \/ (Has(x.queue, m) /\ n = StopOf(k))
  <2>1. StopOf(k) \in PodLetters /\ x.queue \in Seq(PodLetters)
    BY <1>0, StreamParts, PodLettersDiffer
  <2>2. OnceIn(x.queue, PodRepeats) /\ ~Has(x.queue, StopOf(k))
    BY <1>0 DEF CallOK
  <2> QED BY <1>1, <2>1, <2>2, SentLast
<1>3. \A j : /\ StartAsked(y, j) <=> StartAsked(x, j)
             /\ Stopping(y, j) <=> Stopping(x, j)
             /\ Under(y, j) <=> Under(x, j)
  BY <1>1 DEF StartAsked, Stopping, Under
<1>4. CallOK(y, 0)
  <2>1. \A j \in Nat : Has(y.queue, ReplyOf(j)) <=> StartAsked(y, j)
    BY <1>2, <1>3, PodLettersDiffer DEF CallOK
  <2>2. \A j \in Nat \ {0} : Has(y.queue, StopOf(j)) <=> Stopping(y, j) /\ j # 0
    BY <1>2, <1>3, PodLettersDiffer DEF CallOK
  <2> QED BY <1>2, <2>1, <2>2 DEF CallOK
<1>5. ASSUME NEW active, NEW there, NEW listening, PodOK(x, active, there, listening, k),
             \A c \in ContainerSet : x.wires[c] = 0
      PROVE  PodOK(y, active, there, listening, 0)
  <2>1. AloneOK(y, active)
    BY <1>1, <1>3, <1>5 DEF PodOK, AloneOK
  <2>2. HearOK(y, listening)
    <3>1. StopOf(k) # StopOf(0) /\ \A c : StopOf(k) # EndFor(c)
      BY <1>0, PodLettersDiffer
    <3> QED BY <1>1, <1>2, <1>3, <1>5, <3>1 DEF PodOK, HearOK
  <2>3. \A c \in ContainerSet : WireOK(y, active, there, listening, 0, c)
    BY <1>1, <1>5 DEF WireOK
  <2> QED BY <2>1, <2>2, <2>3 DEF PodOK
<1> QED BY <1>1, <1>4, <1>5 DEF y

\* The stop of a stream is asked for by the button.
LEMMA StopClicked ==
  ASSUME NEW x \in StreamRecords, CallOK(x, 0)
  PROVE  /\ Reply(x, StopOf(0)) \in StreamRecords /\ CallOK(Reply(x, StopOf(0)), 0)
         /\ Reply(x, StopOf(0)).starts = x.starts
         /\ \A active, there, listening :
              /\ PodOK(x, active, there, listening, 0)
              /\ \A c \in ContainerSet : x.wires[c] = 0
              /\ \A k : ~StartAsked(x, k)
              => PodOK(Reply(x, StopOf(0)), active, there, listening, 0)
<1> DEFINE y == Reply(x, StopOf(0))
<1>1. /\ y \in StreamRecords /\ y.wires = x.wires /\ y.starts = x.starts
      /\ y.queue = Append(x.queue, StopOf(0))
  BY Replying, PodLettersDiffer
<1> HIDE DEF y
<1>2. /\ OnceIn(y.queue, PodRepeats)
      /\ \A m : Has(y.queue, m) <=> Has(x.queue, m) \/ m = StopOf(0)
      /\ \A m, n : Before(y.queue, m, n) <=>
              Before(x.queue, m, n) \/ (Has(x.queue, m) /\ n = StopOf(0))
  <2>1. StopOf(0) \in PodLetters /\ StopOf(0) \in PodRepeats /\ x.queue \in Seq(PodLetters)
    BY StreamParts, PodLettersDiffer
  <2>2. OnceIn(x.queue, PodRepeats)
    BY DEF CallOK
  <2> QED BY <1>1, <2>1, <2>2, SentLast
<1>3. \A j : /\ StartAsked(y, j) <=> StartAsked(x, j)
             /\ Stopping(y, j) <=> Stopping(x, j)
             /\ Under(y, j) <=> Under(x, j)
  BY <1>1 DEF StartAsked, Stopping, Under
<1>4. CallOK(y, 0)
  <2>1. \A j \in Nat : Has(y.queue, ReplyOf(j)) <=> StartAsked(y, j)
    BY <1>2, <1>3, PodLettersDiffer DEF CallOK
  <2>2. \A j \in Nat \ {0} : Has(y.queue, StopOf(j)) <=> Stopping(y, j) /\ j # 0
    BY <1>2, <1>3, PodLettersDiffer DEF CallOK
  <2> QED BY <1>2, <2>1, <2>2 DEF CallOK
<1>5. ASSUME NEW active, NEW there, NEW listening, PodOK(x, active, there, listening, 0),
             \A c \in ContainerSet : x.wires[c] = 0, \A k : ~StartAsked(x, k)
      PROVE  PodOK(y, active, there, listening, 0)
  <2>1. AloneOK(y, active)
    BY <1>1, <1>3, <1>5 DEF PodOK, AloneOK
  <2>2. HearOK(y, listening)
    <3>1. ASSUME NEW k \in DOMAIN y.starts PROVE ~Before(y.queue, ReplyOf(k), StopOf(0))
      <4>1. k \in Nat
        BY <1>1, StreamParts
      <4>2. ~Has(y.queue, ReplyOf(k))
        BY <1>3, <1>4, <1>5, <4>1 DEF CallOK
      <4> QED BY <4>2, BeforeHas
    <3>2. /\ listening \subseteq DOMAIN y.starts
          /\ \A k \in listening :
               y.wires[y.starts[k].on] = k \/ Has(y.queue, EndFor(y.starts[k].on))
      BY <1>1, <1>2, <1>5 DEF PodOK, HearOK
    <3> QED BY <1>3, <1>5, <3>1, <3>2 DEF HearOK
  <2>3. \A c \in ContainerSet : WireOK(y, active, there, listening, 0, c)
    BY <1>1, <1>5 DEF WireOK
  <2> QED BY <2>1, <2>2, <2>3 DEF PodOK
<1> QED BY <1>1, <1>4, <1>5 DEF y

\* A start's stream is opened.
Opened(x, k) == [x EXCEPT !.wires[x.starts[k].on] = k, !.starts[k].phase = "asked"]

LEMMA Opening ==
  ASSUME NEW x \in StreamRecords, NEW k \in DOMAIN x.starts
  PROVE  /\ OpenWire(x, k) = Reply(Opened(x, k), ReplyOf(k))
         /\ Opened(x, k) \in StreamRecords /\ Opened(x, k).queue = x.queue
         /\ Opened(x, k).wires[x.starts[k].on] = k
         /\ \A c \in ContainerSet : c # x.starts[k].on => Opened(x, k).wires[c] = x.wires[c]
         /\ DOMAIN Opened(x, k).starts = DOMAIN x.starts
         /\ Len(Opened(x, k).starts) = Len(x.starts)
         /\ \A j \in DOMAIN x.starts :
              /\ Opened(x, k).starts[j].on = x.starts[j].on
              /\ Opened(x, k).starts[j].phase = IF j = k THEN "asked" ELSE x.starts[j].phase
<1> DEFINE t == Turned(x, k, "asked")
           c == x.starts[k].on
           w == [x.wires EXCEPT ![c] = k]
           y == Opened(x, k)
<1>1. /\ t \in StreamRecords /\ t.wires = x.wires /\ t.queue = x.queue
      /\ DOMAIN t.starts = DOMAIN x.starts /\ Len(t.starts) = Len(x.starts)
      /\ \A j \in DOMAIN x.starts :
           /\ t.starts[j].on = x.starts[j].on
           /\ t.starts[j].phase = IF j = k THEN "asked" ELSE x.starts[j].phase
  BY Turning
<1>2. /\ x \in StreamShapes /\ x.wires \in [ContainerSet -> Nat] /\ c \in ContainerSet
      /\ Len(x.starts) \in Nat /\ k \in 1..Len(x.starts)
      /\ \A d \in ContainerSet : x.wires[d] <= Len(x.starts) /\ x.wires[d] \in Nat
  BY StreamParts
<1>3. /\ t \in StreamShapes /\ t.queue \in Seq(PodLetters) /\ t.starts \in Seq(StartRecords)
  BY <1>1, StreamParts
<1> HIDE DEF c
<1>4. /\ w \in [ContainerSet -> Nat] /\ w[c] = k
      /\ \A d \in ContainerSet : d # c => w[d] = x.wires[d]
      /\ \A d \in ContainerSet : w[d] <= Len(x.starts)
  BY <1>2
<1>5. y = [t EXCEPT !.wires = w]
  <2>1. t.wires = x.wires
    BY <1>1
  <2>2. y = [x EXCEPT !.wires = w, !.starts = [x.starts EXCEPT ![k].phase = "asked"]]
    BY <1>2 DEF Opened, c, StreamShapes
  <2>3. t = [x EXCEPT !.starts = [x.starts EXCEPT ![k].phase = "asked"]]
    BY <1>2 DEF Turned, StreamShapes
  <2> HIDE DEF y, t, w
  <2> QED BY <1>2, <2>2, <2>3 DEF StreamShapes
<1> HIDE DEF w, t, y
<1>6. y \in StreamShapes /\ y.wires = w /\ y.queue = t.queue /\ y.starts = t.starts
  BY <1>3, <1>4, <1>5 DEF StreamShapes
<1>7. y \in StreamRecords
  BY <1>1, <1>4, <1>6 DEF StreamRecords
<1>8. OpenWire(x, k) = Reply(y, ReplyOf(k))
  BY DEF OpenWire, y, Opened, ReplyOf
<1> QED BY <1>1, <1>2, <1>4, <1>6, <1>7, <1>8 DEF y, c

\* A start is asked for once its turn has come, and no other stream is then open.
LEMMA OpenedKeeps ==
  ASSUME NEW x \in StreamRecords, NEW k, Stopping(x, k), CallOK(x, k)
  PROVE  LET z == OpenWire(x, k)
         IN  /\ z \in StreamRecords /\ CallOK(z, 0)
             /\ DOMAIN z.starts = DOMAIN x.starts /\ Len(z.starts) = Len(x.starts)
             /\ \A j \in DOMAIN x.starts :
                  /\ z.starts[j].on = x.starts[j].on
                  /\ z.starts[j].phase = IF j = k THEN "asked" ELSE x.starts[j].phase
             /\ \A m : Has(z.queue, m) <=> Has(x.queue, m) \/ m = ReplyOf(k)
             /\ \A there, listening : PodOK(x, NoStream, there, listening, k) =>
                                      PodOK(z, NoStream, there, listening, 0)
<1> DEFINE z == OpenWire(x, k)
           y == Opened(x, k)
           c == x.starts[k].on
<1>0. k \in DOMAIN x.starts /\ k \in Nat /\ k # 0 /\ c \in ContainerSet
  BY StreamParts DEF Stopping
<1>1. /\ y \in StreamRecords /\ y.queue = x.queue /\ y.wires[c] = k
      /\ \A d \in ContainerSet : d # c => y.wires[d] = x.wires[d]
      /\ DOMAIN y.starts = DOMAIN x.starts /\ Len(y.starts) = Len(x.starts)
      /\ \A j \in DOMAIN x.starts :
           /\ y.starts[j].on = x.starts[j].on
           /\ y.starts[j].phase = IF j = k THEN "asked" ELSE x.starts[j].phase
      /\ z = Reply(y, ReplyOf(k))
  BY <1>0, Opening
<1> HIDE DEF y, z
<1>2. /\ z \in StreamRecords /\ z.wires = y.wires /\ z.starts = y.starts
      /\ z.queue = Append(x.queue, ReplyOf(k))
  <2>1. ReplyOf(k) \in PodLetters
    BY <1>0, PodLettersDiffer
  <2> QED BY <1>1, <2>1, Replying
<1>3. ~Has(x.queue, ReplyOf(k)) /\ ~StartAsked(x, k)
  BY <1>0 DEF CallOK, StartAsked, Stopping
<1>4. /\ OnceIn(z.queue, PodRepeats)
      /\ \A m : Has(z.queue, m) <=> Has(x.queue, m) \/ m = ReplyOf(k)
      /\ \A m, n : Before(z.queue, m, n) <=>
              Before(x.queue, m, n) \/ (Has(x.queue, m) /\ n = ReplyOf(k))
  <2>1. ReplyOf(k) \in PodLetters /\ x.queue \in Seq(PodLetters) /\ OnceIn(x.queue, PodRepeats)
    BY <1>0, StreamParts, PodLettersDiffer DEF CallOK
  <2> QED BY <1>2, <1>3, <2>1, SentLast
<1> HIDE DEF c
<1>5. \A j : /\ StartAsked(z, j) <=> StartAsked(x, j) \/ j = k
             /\ Stopping(z, j) <=> Stopping(x, j) /\ j # k
             /\ Under(z, j) <=> Under(x, j)
  <2>1. Under(x, k)
    BY DEF Stopping, Under
  <2> QED BY <1>0, <1>1, <1>2, <2>1 DEF StartAsked, Stopping, Under
<1>6. CallOK(z, 0)
  <2>1. \A j \in Nat : Has(z.queue, ReplyOf(j)) <=> StartAsked(z, j)
    BY <1>4, <1>5, PodLettersDiffer DEF CallOK
  <2>2. \A j \in Nat \ {0} : Has(z.queue, StopOf(j)) <=> Stopping(z, j) /\ j # 0
    BY <1>4, <1>5, PodLettersDiffer DEF CallOK
  <2> QED BY <1>4, <2>1, <2>2 DEF CallOK
<1>7. ASSUME NEW there, NEW listening, PodOK(x, NoStream, there, listening, k)
      PROVE  PodOK(z, NoStream, there, listening, 0)
  <2>1. \A j : Under(x, j) => j = k
    BY <1>0, <1>7 DEF PodOK, AloneOK, Stopping, Under
  <2>2. \A j : ~StartAsked(x, j)
    BY <1>3, <2>1 DEF StartAsked, Under
  <2>3. \A d \in ContainerSet : x.wires[d] = 0
    BY PodAssumption, <1>7, <2>2 DEF PodOK, WireOK
  <2>4. AloneOK(z, NoStream)
    BY <1>1, <1>2, <1>5, <1>7 DEF PodOK, AloneOK
  <2>5. HearOK(z, listening)
    <3>1. ASSUME NEW j \in DOMAIN z.starts PROVE ~Before(z.queue, ReplyOf(j), StopOf(0))
      BY <1>1, <1>2, <1>4, <1>7, PodLettersDiffer DEF PodOK, HearOK
    <3>2. listening \subseteq DOMAIN z.starts
      BY <1>1, <1>2, <1>7 DEF PodOK, HearOK
    <3>3. ASSUME NEW j \in listening
          PROVE  z.wires[z.starts[j].on] = j \/ Has(z.queue, EndFor(z.starts[j].on))
      <4>1. j \in DOMAIN x.starts /\ j # 0 /\ x.starts[j].on \in ContainerSet
        BY <1>7, StreamParts DEF PodOK, HearOK
      <4>2. Has(x.queue, EndFor(x.starts[j].on))
        BY <1>7, <2>3, <4>1 DEF PodOK, HearOK
      <4> QED BY <1>1, <1>2, <1>4, <4>1, <4>2
    <3>4. \A j : StartAsked(z, j) => j = k
      BY <1>5, <2>2
    <3>5. z.wires[z.starts[k].on] = k
      BY <1>0, <1>1, <1>2 DEF c
    <3> QED BY <3>1, <3>2, <3>3, <3>4, <3>5 DEF HearOK
  <2>6. ASSUME NEW d \in ContainerSet PROVE WireOK(z, NoStream, there, listening, 0, d)
    <3>1. CASE d # c
      BY <1>1, <1>2, <2>3, <3>1 DEF WireOK
    <3>2. CASE d = c
      <4>1. z.wires[d] = k /\ k \in DOMAIN z.starts /\ z.starts[k].on = d /\ StartAsked(z, k)
        BY <1>0, <1>1, <1>2, <1>5, <3>2 DEF c
      <4>2. ~Before(z.queue, ReplyOf(k), EndFor(d))
        BY <1>3, <1>4, BeforeHas, PodLettersDiffer
      <4> QED BY <4>1, <4>2 DEF WireOK
    <3> QED BY <3>1, <3>2
  <2> QED BY <2>4, <2>5, <2>6 DEF PodOK
<1> QED BY <1>1, <1>2, <1>4, <1>6, <1>7 DEF z

\* What a start of a stream does: the new start is the last one, and awaits its reply, or
\* the stop of the stream that is known.
Starting(x, y, c, phase) ==
  LET k == Len(x.starts) + 1
  IN  /\ y \in StreamRecords /\ CallOK(y, 0)
      /\ k \in Nat /\ k # 0 /\ k \notin DOMAIN x.starts
      /\ DOMAIN y.starts = DOMAIN x.starts \cup {k}
      /\ \A j \in DOMAIN x.starts :
           y.starts[j].on = x.starts[j].on /\ y.starts[j].phase = x.starts[j].phase
      /\ y.starts[k].on = c /\ y.starts[k].phase = phase
      /\ \A j : Has(y.queue, StopOf(j)) <=>
                  Has(x.queue, StopOf(j)) \/ (phase = "stopping" /\ j = k)

\* A stream is started, with none known.
LEMMA StartOpens ==
  ASSUME NEW x \in StreamRecords, NEW c \in ContainerSet, CallOK(x, 0)
  PROVE  /\ Starting(x, StartStream(x, c, NoStream), c, "asked")
         /\ \A there, listening :
              PodOK(x, NoStream, there, listening, 0) /\ (\A j : ~Under(x, j)) =>
                PodOK(StartStream(x, c, NoStream), NoStream, there, listening, 0)
<1> DEFINE k == Len(x.starts) + 1
           y == StartBegun(x, c)
           z == StartStream(x, c, NoStream)
<1>1. z = OpenWire(y, k)
  BY DEF StartStream, StartBegun
<1>2. /\ y \in StreamRecords /\ y.wires = x.wires /\ y.queue = x.queue
      /\ k \in Nat /\ k # 0 /\ k \notin DOMAIN x.starts
      /\ DOMAIN y.starts = DOMAIN x.starts \cup {k}
      /\ \A j \in DOMAIN x.starts : y.starts[j] = x.starts[j]
      /\ y.starts[k].on = c /\ y.starts[k].phase = "stopping"
  BY Beginning
<1>3. /\ CallOK(y, k) /\ Stopping(y, k)
      /\ \A there, listening :
           PodOK(x, NoStream, there, listening, 0) /\ (\A j : ~Under(x, j)) =>
             PodOK(y, NoStream, there, listening, k)
  BY BegunKeeps
<1> HIDE DEF z, y, k
<1>4. /\ z \in StreamRecords /\ CallOK(z, 0) /\ DOMAIN z.starts = DOMAIN y.starts
      /\ \A j \in DOMAIN y.starts :
           /\ z.starts[j].on = y.starts[j].on
           /\ z.starts[j].phase = IF j = k THEN "asked" ELSE y.starts[j].phase
      /\ \A m : Has(z.queue, m) <=> Has(y.queue, m) \/ m = ReplyOf(k)
      /\ \A there, listening : PodOK(y, NoStream, there, listening, k) =>
                               PodOK(z, NoStream, there, listening, 0)
  <2>1. /\ OpenWire(y, k) \in StreamRecords /\ CallOK(OpenWire(y, k), 0)
        /\ DOMAIN OpenWire(y, k).starts = DOMAIN y.starts
        /\ \A j \in DOMAIN y.starts :
             /\ OpenWire(y, k).starts[j].on = y.starts[j].on
             /\ OpenWire(y, k).starts[j].phase = IF j = k THEN "asked" ELSE y.starts[j].phase
        /\ \A m : Has(OpenWire(y, k).queue, m) <=> Has(y.queue, m) \/ m = ReplyOf(k)
        /\ \A there, listening : PodOK(y, NoStream, there, listening, k) =>
                                 PodOK(OpenWire(y, k), NoStream, there, listening, 0)
    BY <1>2, <1>3, OpenedKeeps, Zenon
  <2> QED BY <1>1, <2>1, Zenon
<1>5. Starting(x, z, c, "asked")
  <2>1. \A j : Has(z.queue, StopOf(j)) <=> Has(x.queue, StopOf(j))
    BY <1>2, <1>4, PodLettersDiffer
  <2>2. /\ \A j \in DOMAIN x.starts :
             z.starts[j].on = x.starts[j].on /\ z.starts[j].phase = x.starts[j].phase
        /\ z.starts[k].on = c /\ z.starts[k].phase = "asked"
    BY <1>2, <1>4
  <2> QED BY <1>2, <1>4, <2>1, <2>2 DEF Starting, k
<1> QED BY <1>3, <1>4, <1>5 DEF z

\* A stream is started, which stops the one that is known.
LEMMA StartStops ==
  ASSUME NEW x \in StreamRecords, NEW c \in ContainerSet,
         NEW known \in ContainerSet, CallOK(x, 0)
  PROVE  /\ Starting(x, StartStream(x, c, known), c, "stopping")
         /\ \A there, listening :
              PodOK(x, known, there, listening, 0) /\ (\A j : ~Under(x, j)) =>
                PodOK(StartStream(x, c, known), known, there, listening, 0)
<1> DEFINE k == Len(x.starts) + 1
           y == StartBegun(x, c)
           v == CloseWire(y, known)
           z == StartStream(x, c, known)
<1>1. z = Reply(v, StopOf(k))
  BY PodAssumption DEF StartStream, StartBegun, StopOf
<1>2. /\ y \in StreamRecords /\ y.wires = x.wires /\ y.queue = x.queue
      /\ k \in Nat /\ k # 0 /\ k \notin DOMAIN x.starts
      /\ DOMAIN y.starts = DOMAIN x.starts \cup {k}
      /\ \A j \in DOMAIN x.starts : y.starts[j] = x.starts[j]
      /\ y.starts[k].on = c /\ y.starts[k].phase = "stopping"
  BY Beginning
<1>3. /\ CallOK(y, k) /\ Stopping(y, k)
      /\ \A there, listening :
           PodOK(x, known, there, listening, 0) /\ (\A j : ~Under(x, j)) =>
             PodOK(y, known, there, listening, k)
  BY BegunKeeps
<1> HIDE DEF z, y, k
<1>4. /\ v \in StreamRecords /\ CallOK(v, k) /\ v.starts = y.starts
      /\ \A j : Has(v.queue, StopOf(j)) <=> Has(y.queue, StopOf(j))
      /\ \A there, listening : PodOK(y, known, there, listening, k) =>
           PodOK(v, known, there, listening, k) /\ \A d \in ContainerSet : v.wires[d] = 0
  <2>1. /\ v \in StreamRecords /\ CallOK(v, k) /\ v.starts = y.starts
        /\ \A j : Has(v.queue, StopOf(j)) <=> Has(y.queue, StopOf(j))
        /\ \A there, listening : PodOK(y, known, there, listening, k) =>
                                 PodOK(v, known, there, listening, k)
    BY <1>2, <1>3, PodClosedKeeps
  <2>2. ASSUME NEW there, NEW listening, PodOK(y, known, there, listening, k)
        PROVE  \A d \in ContainerSet : v.wires[d] = 0
    BY <1>2, <1>3, <2>2, KnownClosed
  <2> QED BY <2>1, <2>2
<1> HIDE DEF v
<1>5. Stopping(v, k)
  BY <1>3, <1>4 DEF Stopping
<1>6. /\ z \in StreamRecords /\ CallOK(z, 0) /\ z.starts = v.starts
      /\ \A there, listening :
           PodOK(v, known, there, listening, k) /\ (\A d \in ContainerSet : v.wires[d] = 0) =>
             PodOK(z, known, there, listening, 0)
  BY <1>1, <1>4, <1>5, StopAsked
<1>7. \A j : Has(z.queue, StopOf(j)) <=> Has(x.queue, StopOf(j)) \/ j = k
  <2>1. StopOf(k) \in PodLetters
    BY <1>2, PodLettersDiffer
  <2>2. z.queue = Append(v.queue, StopOf(k)) /\ v.queue \in Seq(PodLetters)
    BY <1>1, <1>4, <2>1, Replying, StreamParts
  <2>3. \A m : Has(z.queue, m) <=> Has(v.queue, m) \/ m = StopOf(k)
    BY <2>1, <2>2, HasAppend
  <2> QED BY <1>2, <1>4, <2>3, PodLettersDiffer
<1>8. Starting(x, z, c, "stopping")
  <2>1. /\ \A j \in DOMAIN x.starts :
             z.starts[j].on = x.starts[j].on /\ z.starts[j].phase = x.starts[j].phase
        /\ z.starts[k].on = c /\ z.starts[k].phase = "stopping"
    BY <1>2, <1>4, <1>6
  <2> QED BY <1>2, <1>4, <1>6, <1>7, <2>1 DEF Starting, k
<1> QED BY <1>3, <1>4, <1>6, <1>8 DEF z

\* The known stream is stopped, not awaited, and started again.
LEMMA StartAnew ==
  ASSUME NEW x \in StreamRecords, NEW c \in ContainerSet,
         NEW known \in ContainerSet, CallOK(x, 0)
  PROVE  LET z == StartStream(CloseWire(x, known), c, NoStream)
         IN  /\ Starting(x, z, c, "asked")
             /\ \A there, listening :
                  PodOK(x, known, there, listening, 0) /\ (\A j : ~Under(x, j)) =>
                    PodOK(z, NoStream, there, listening, 0)
<1> DEFINE y == CloseWire(x, known)
           z == StartStream(y, c, NoStream)
<1>1. /\ y \in StreamRecords /\ CallOK(y, 0) /\ y.starts = x.starts
      /\ \A j : Has(y.queue, StopOf(j)) <=> Has(x.queue, StopOf(j))
  BY PodClosedKeeps
<1>2. ASSUME NEW there, NEW listening, PodOK(x, known, there, listening, 0)
      PROVE  PodOK(y, NoStream, there, listening, 0)
  BY <1>2, KnownClosed
<1> HIDE DEF y
<1>3. /\ Starting(y, z, c, "asked")
      /\ \A there, listening :
           PodOK(y, NoStream, there, listening, 0) /\ (\A j : ~Under(y, j)) =>
             PodOK(z, NoStream, there, listening, 0)
  BY <1>1, StartOpens
<1> HIDE DEF z
<1>4. Starting(x, z, c, "asked")
  BY <1>1, <1>3 DEF Starting
<1>5. \A j : Under(y, j) <=> Under(x, j)
  BY <1>1 DEF Under
<1> QED BY <1>2, <1>3, <1>4, <1>5 DEF y, z

\* What the first message being heard leaves of the queue.
LEMMA HeardPod ==
  ASSUME NEW x \in StreamRecords, x.queue # <<>>, OnceIn(x.queue, PodRepeats)
  PROVE  LET y == Hearing(x)
             q == Tail(x.queue)
         IN  /\ y \in StreamRecords /\ y.wires = x.wires /\ y.starts = x.starts /\ y.queue = q
             /\ OnceIn(q, PodRepeats)
             /\ \A m : Has(x.queue, m) <=> m = Head(x.queue) \/ Has(q, m)
             /\ Head(x.queue) \notin PodRepeats => ~Has(q, Head(x.queue))
             /\ \A m, n : Before(q, m, n) => Before(x.queue, m, n)
             /\ \A m, n : Before(x.queue, m, n) =>
                     Has(q, n) /\ (m = Head(x.queue) \/ Before(q, m, n))
             /\ \A n : Has(q, n) => Before(x.queue, Head(x.queue), n)
<1>1. x.queue \in Seq(PodLetters)
  BY StreamParts
<1> QED BY <1>1, HeardFirst, HearingParts

\* A stop is heard of: the stream it was of is known no more, and it is the turn of the
\* start that awaited it.
LEMMA StopHeard ==
  ASSUME NEW x \in StreamRecords, NEW k \in Nat, x.queue # <<>>, Head(x.queue) = StopOf(k),
         CallOK(x, 0)
  PROVE  /\ Hearing(x) \in StreamRecords /\ CallOK(Hearing(x), k) /\ Hearing(x).starts = x.starts
         /\ k # 0 => Stopping(x, k)
         /\ \A m : Has(Hearing(x).queue, m) => Has(x.queue, m)
         /\ \A active, there, listening : PodOK(x, active, there, listening, 0) =>
              \A on : PodOK(Hearing(x), NoStream, on, listening, k)
<1> DEFINE y == Hearing(x)
           q == Tail(x.queue)
<1>1. /\ y \in StreamRecords /\ y.wires = x.wires /\ y.starts = x.starts /\ y.queue = q
      /\ OnceIn(q, PodRepeats)
      /\ \A m : Has(x.queue, m) <=> m = StopOf(k) \/ Has(q, m)
      /\ StopOf(k) \notin PodRepeats => ~Has(q, StopOf(k))
      /\ \A m, n : Before(q, m, n) => Before(x.queue, m, n)
      /\ \A m, n : Before(x.queue, m, n) => Has(q, n) /\ (m = StopOf(k) \/ Before(q, m, n))
  BY HeardPod DEF CallOK
<1> HIDE DEF y, q
<1>2. \A j : /\ StartAsked(y, j) <=> StartAsked(x, j)
             /\ Stopping(y, j) <=> Stopping(x, j)
             /\ Under(y, j) <=> Under(x, j)
  BY <1>1 DEF StartAsked, Stopping, Under
<1>3. k # 0 => Stopping(x, k) /\ ~Has(q, StopOf(k))
  BY <1>1, PodLettersDiffer DEF CallOK
<1>4. CallOK(y, k)
  <2>1. \A j \in Nat : Has(y.queue, ReplyOf(j)) <=> StartAsked(y, j)
    BY <1>1, <1>2, PodLettersDiffer DEF CallOK
  <2>2. \A j \in Nat \ {0} : Has(y.queue, StopOf(j)) <=> Stopping(y, j) /\ j # k
    BY <1>1, <1>2, <1>3, PodLettersDiffer DEF CallOK
  <2> QED BY <1>1, <2>1, <2>2 DEF CallOK
<1>5. ASSUME NEW active, NEW there, NEW listening, PodOK(x, active, there, listening, 0), NEW on
      PROVE  PodOK(y, NoStream, on, listening, k)
  <2>1. ASSUME NEW c \in ContainerSet PROVE y.wires[c] = 0 \/ StartAsked(y, y.wires[c])
    <3>1. WireOK(x, active, there, listening, 0, c)
      BY <1>5 DEF PodOK
    <3>2. CASE k = 0
      <4>1. Has(x.queue, StopOf(0))
        BY <1>1, <3>2
      <4> QED BY <1>1, <1>2, <3>1, <4>1 DEF WireOK
    <3>3. CASE k # 0
      <4>1. Stopping(x, k) /\ k \in DOMAIN x.starts
        BY <1>3, <3>3 DEF Stopping
      <4> QED BY <1>1, <1>2, <3>1, <3>3, <4>1 DEF WireOK
    <3> QED BY <3>2, <3>3
  <2>2. AloneOK(y, active)
    BY <1>1, <1>2, <1>5 DEF PodOK, AloneOK
  <2>3. HearOK(y, listening)
    <3>1. \A j \in DOMAIN y.starts : ~Before(y.queue, ReplyOf(j), StopOf(0))
      BY <1>1, <1>5 DEF PodOK, HearOK
    <3>2. listening \subseteq DOMAIN y.starts
      BY <1>1, <1>5 DEF PodOK, HearOK
    <3>3. \A j \in listening : y.wires[y.starts[j].on] = j \/ Has(y.queue, EndFor(y.starts[j].on))
      BY <1>1, <1>5, PodLettersDiffer DEF PodOK, HearOK
    <3>4. \A j \in DOMAIN y.starts : StartAsked(y, j) =>
            \/ y.wires[y.starts[j].on] = j
            \/ Before(y.queue, ReplyOf(j), EndFor(y.starts[j].on))
      BY <1>1, <1>2, <1>5, PodLettersDiffer DEF PodOK, HearOK
    <3> QED BY <3>1, <3>2, <3>3, <3>4 DEF HearOK
  <2>4. ASSUME NEW c \in ContainerSet PROVE WireOK(y, NoStream, on, listening, k, c)
    <3>1. WireOK(x, active, there, listening, 0, c)
      BY <1>5 DEF PodOK
    <3> QED BY <1>1, <2>1, <3>1 DEF WireOK
  <2>5. AloneOK(y, NoStream)
    BY <2>2 DEF AloneOK
  <2> QED BY <2>3, <2>4, <2>5 DEF PodOK
<1> QED BY <1>1, <1>3, <1>4, <1>5 DEF y

\* A start whose turn has come is given up.
LEMMA StartGivenUp ==
  ASSUME NEW x \in StreamRecords, NEW k, Stopping(x, k), CallOK(x, k)
  PROVE  LET y == Turned(x, k, "over")
         IN  /\ y \in StreamRecords /\ CallOK(y, 0)
             /\ DOMAIN y.starts = DOMAIN x.starts
             /\ \A j \in DOMAIN x.starts :
                  /\ y.starts[j].on = x.starts[j].on
                  /\ y.starts[j].phase = IF j = k THEN "over" ELSE x.starts[j].phase
             /\ \A there, listening : PodOK(x, NoStream, there, listening, k) =>
                                      PodOK(y, NoStream, there, listening, 0)
<1> DEFINE y == Turned(x, k, "over")
<1>0. k \in DOMAIN x.starts /\ k \in Nat /\ k # 0
  BY StreamParts DEF Stopping
<1>1. /\ y \in StreamRecords /\ y.wires = x.wires /\ y.queue = x.queue
      /\ DOMAIN y.starts = DOMAIN x.starts
      /\ \A j \in DOMAIN x.starts :
           /\ y.starts[j].on = x.starts[j].on
           /\ y.starts[j].phase = IF j = k THEN "over" ELSE x.starts[j].phase
  BY <1>0, Turning
<1> HIDE DEF y
<1>2. \A j : /\ StartAsked(y, j) <=> StartAsked(x, j)
             /\ Stopping(y, j) <=> Stopping(x, j) /\ j # k
             /\ Under(y, j) <=> Under(x, j) /\ j # k
  BY <1>0, <1>1 DEF StartAsked, Stopping, Under
<1>3. CallOK(y, 0)
  BY <1>1, <1>2 DEF CallOK
<1>4. ASSUME NEW there, NEW listening, PodOK(x, NoStream, there, listening, k)
      PROVE  PodOK(y, NoStream, there, listening, 0)
  <2>1. AloneOK(y, NoStream)
    BY <1>1, <1>2, <1>4 DEF PodOK, AloneOK
  <2>2. HearOK(y, listening)
    <3>1. /\ \A j \in DOMAIN y.starts : ~Before(y.queue, ReplyOf(j), StopOf(0))
          /\ listening \subseteq DOMAIN y.starts
      BY <1>1, <1>4 DEF PodOK, HearOK
    <3>2. \A j \in listening : y.wires[y.starts[j].on] = j \/ Has(y.queue, EndFor(y.starts[j].on))
      BY <1>1, <1>4 DEF PodOK, HearOK
    <3>3. \A j \in DOMAIN y.starts : StartAsked(y, j) =>
            \/ y.wires[y.starts[j].on] = j
            \/ Before(y.queue, ReplyOf(j), EndFor(y.starts[j].on))
      BY <1>1, <1>2, <1>4 DEF PodOK, HearOK
    <3> QED BY <3>1, <3>2, <3>3 DEF HearOK
  <2>3. ASSUME NEW c \in ContainerSet PROVE WireOK(y, NoStream, there, listening, 0, c)
    <3>1. WireOK(x, NoStream, there, listening, k, c)
      BY <1>4 DEF PodOK
    <3>2. x.wires[c] # 0 /\ ~StartAsked(x, x.wires[c]) => x.wires[c] # k
      <4>1. ASSUME x.wires[c] = k, x.starts[k].phase = "over" PROVE FALSE
        BY <4>1 DEF Stopping
      <4> QED BY <1>0, <3>1, <4>1 DEF WireOK
    <3> QED BY <1>0, <1>1, <1>2, <3>1, <3>2 DEF WireOK
  <2> QED BY <2>1, <2>2, <2>3 DEF PodOK
<1> QED BY <1>1, <1>3, <1>4 DEF y

\* A reply is heard: its start's stream is known, and heard from now on.
StartAnswered(x, k) == [x EXCEPT !.queue = Tail(@), !.starts[k].phase = "over"]

LEMMA ReplyHeard ==
  ASSUME NEW x \in StreamRecords, NEW k \in DOMAIN x.starts, x.queue # <<>>,
         Head(x.queue) = ReplyOf(k), CallOK(x, 0)
  PROVE  LET y == StartAnswered(x, k)
         IN  /\ y \in StreamRecords /\ CallOK(y, 0) /\ StartAsked(x, k)
             /\ DOMAIN y.starts = DOMAIN x.starts
             /\ \A j \in DOMAIN x.starts :
                  /\ y.starts[j].on = x.starts[j].on
                  /\ y.starts[j].phase = IF j = k THEN "over" ELSE x.starts[j].phase
             /\ \A m : Has(y.queue, m) => Has(x.queue, m)
             /\ \A active, there, listening : PodOK(x, active, there, listening, 0) =>
                  PodOK(y, x.starts[k].on, TRUE, listening \cup {k}, 0)
<1> DEFINE y == StartAnswered(x, k)
           h == Hearing(x)
           q == Tail(x.queue)
           c == x.starts[k].on
<1>0. k \in Nat /\ k # 0 /\ c \in ContainerSet
  BY StreamParts
<1>1. /\ h \in StreamRecords /\ h.wires = x.wires /\ h.starts = x.starts /\ h.queue = q
      /\ OnceIn(q, PodRepeats)
      /\ \A m : Has(x.queue, m) <=> m = ReplyOf(k) \/ Has(q, m)
      /\ ~Has(q, ReplyOf(k))
      /\ \A m, n : Before(q, m, n) => Before(x.queue, m, n)
      /\ \A m, n : Before(x.queue, m, n) => Has(q, n) /\ (m = ReplyOf(k) \/ Before(q, m, n))
      /\ \A n : Has(q, n) => Before(x.queue, ReplyOf(k), n)
  <2>1. OnceIn(x.queue, PodRepeats) /\ ReplyOf(k) \notin PodRepeats
    BY PodLettersDiffer DEF CallOK
  <2>2. /\ h \in StreamRecords /\ h.wires = x.wires /\ h.starts = x.starts /\ h.queue = q
        /\ OnceIn(q, PodRepeats)
        /\ \A m, n : Before(q, m, n) => Before(x.queue, m, n)
    BY <2>1, HeardPod
  <2>4. \A m : Has(x.queue, m) <=> m = ReplyOf(k) \/ Has(q, m)
    BY <2>1, HeardPod
  <2>5. \A m, n : Before(x.queue, m, n) => Has(q, n) /\ (m = ReplyOf(k) \/ Before(q, m, n))
    <3>1. \A m, n : Before(x.queue, m, n) =>
                      Has(Tail(x.queue), n) /\ (m = Head(x.queue) \/ Before(Tail(x.queue), m, n))
      BY <2>1, HeardPod
    <3> QED BY <3>1
  <2>6. \A n : Has(q, n) => Before(x.queue, ReplyOf(k), n)
    <3>1. \A n : Has(Tail(x.queue), n) => Before(x.queue, Head(x.queue), n)
      BY <2>1, HeardPod
    <3> QED BY <3>1
  <2>3. ~Has(q, ReplyOf(k))
    BY <2>1, HeardPod
  <2> HIDE DEF h, q
  <2> QED BY <2>2, <2>3, <2>4, <2>5, <2>6
<1>2. y = Turned(h, k, "over")
  <2>1. x \in StreamShapes
    BY StreamParts
  <2> QED BY <2>1 DEF StartAnswered, Turned, Hearing, StreamShapes
<1> HIDE DEF y, h, q
<1>3. /\ y \in StreamRecords /\ y.wires = x.wires /\ y.queue = q
      /\ DOMAIN y.starts = DOMAIN x.starts
      /\ \A j \in DOMAIN x.starts :
           /\ y.starts[j].on = x.starts[j].on
           /\ y.starts[j].phase = IF j = k THEN "over" ELSE x.starts[j].phase
  BY <1>1, <1>2, Turning
<1>4. StartAsked(x, k)
  BY <1>0, <1>1 DEF CallOK
<1> HIDE DEF c
<1>5. \A j : /\ StartAsked(y, j) <=> StartAsked(x, j) /\ j # k
             /\ Stopping(y, j) <=> Stopping(x, j)
             /\ Under(y, j) <=> Under(x, j) /\ j # k
  BY <1>3, <1>4 DEF StartAsked, Stopping, Under
<1>6. CallOK(y, 0)
  <2>1. \A j \in Nat : Has(y.queue, ReplyOf(j)) <=> StartAsked(y, j)
    BY <1>1, <1>3, <1>5, PodLettersDiffer DEF CallOK
  <2>2. \A j \in Nat \ {0} : Has(y.queue, StopOf(j)) <=> Stopping(y, j) /\ j # 0
    BY <1>1, <1>3, <1>5, PodLettersDiffer DEF CallOK
  <2> QED BY <1>1, <1>3, <2>1, <2>2 DEF CallOK
<1>7. ASSUME NEW active, NEW there, NEW listening, PodOK(x, active, there, listening, 0)
      PROVE  PodOK(y, c, TRUE, listening \cup {k}, 0)
  <2>1. \A j : Under(x, j) => j = k
    BY <1>4, <1>7 DEF PodOK, AloneOK, StartAsked, Under
  <2>2. \A j : ~Under(y, j) /\ ~StartAsked(y, j) /\ ~Stopping(y, j)
    <3>1. \A j : ~Under(y, j)
      BY <1>5, <2>1
    <3> QED BY <3>1 DEF Under, StartAsked, Stopping
  <2>3. AloneOK(y, c)
    BY <2>2 DEF AloneOK
  <2>4. /\ ~Has(q, StopOf(0))
        /\ x.wires[c] = k => ~Has(q, EndFor(c))
        /\ x.wires[c] = k \/ Has(q, EndFor(c))
    <3>1. ~Before(x.queue, ReplyOf(k), StopOf(0))
      BY <1>7 DEF PodOK, HearOK
    <3>2. x.wires[c] = k => ~Before(x.queue, ReplyOf(k), EndFor(c))
      BY <1>0, <1>7 DEF PodOK, WireOK
    <3>3. x.wires[c] = k \/ Before(x.queue, ReplyOf(k), EndFor(c))
      BY <1>4, <1>7 DEF PodOK, HearOK, c
    <3> QED BY <1>1, <3>1, <3>2, <3>3
  <2>5. HearOK(y, listening \cup {k})
    <3>1. \A j \in DOMAIN y.starts : ~Before(y.queue, ReplyOf(j), StopOf(0))
      BY <1>3, <2>4, BeforeHas
    <3>2. listening \cup {k} \subseteq DOMAIN y.starts
      BY <1>3, <1>7 DEF PodOK, HearOK
    <3>3. ASSUME NEW j \in listening \cup {k}
          PROVE  y.wires[y.starts[j].on] = j \/ Has(y.queue, EndFor(y.starts[j].on))
      <4>1. CASE j = k
        BY <1>3, <2>4, <4>1 DEF c
      <4>2. CASE j \in listening
        BY <1>1, <1>3, <1>7, <4>2, PodLettersDiffer DEF PodOK, HearOK
      <4> QED BY <4>1, <4>2
    <3> QED BY <2>2, <3>1, <3>2, <3>3 DEF HearOK
  <2>6. ASSUME NEW d \in ContainerSet PROVE WireOK(y, c, TRUE, listening \cup {k}, 0, d)
    <3>1. WireOK(x, active, there, listening, 0, d)
      BY <1>7 DEF PodOK
    <3>2. CASE x.wires[d] = 0
      BY <1>3, <3>2 DEF WireOK
    <3>3. CASE x.wires[d] = k
      <4>1. d = c
        BY <1>0, <3>1, <3>3 DEF WireOK, c
      <4>2. ~Before(y.queue, ReplyOf(k), EndFor(d))
        BY <1>1, <1>3, BeforeHas
      <4>3. k \in DOMAIN y.starts /\ y.starts[k].on = d /\ y.starts[k].phase = "over"
        BY <1>3, <4>1 DEF c
      <4> QED BY <1>3, <2>2, <2>4, <3>3, <4>1, <4>2, <4>3 DEF WireOK
    <3>4. x.wires[d] # 0 => x.wires[d] = k
      <4>1. active = NoStream
        BY <1>4, <1>7 DEF PodOK, AloneOK
      <4>2. ASSUME x.wires[d] # 0, ~StartAsked(x, x.wires[d]) PROVE FALSE
        <5>1. x.starts[x.wires[d]].phase = "over" /\ active = d
          BY <3>1, <4>2 DEF WireOK
        <5> QED BY PodAssumption, <4>1, <5>1
      <4>3. ASSUME StartAsked(x, x.wires[d]) PROVE x.wires[d] = k
        BY <2>1, <4>3 DEF StartAsked, Under
      <4> QED BY <4>2, <4>3
    <3> QED BY <3>2, <3>3, <3>4
  <2> QED BY <2>3, <2>5, <2>6 DEF PodOK
<1>8. \A m : Has(y.queue, m) => Has(x.queue, m)
  BY <1>1, <1>3
<1> QED BY <1>3, <1>4, <1>6, <1>7, <1>8 DEF y, c

\* An end is heard: whoever heard streams of its container does so no more.
LEMMA EndHeard ==
  ASSUME NEW x \in StreamRecords, NEW id \in ContainerSet, x.queue # <<>>,
         Head(x.queue) = EndFor(id), CallOK(x, 0)
  PROVE  LET y == Hearing(x)
         IN  /\ y \in StreamRecords /\ CallOK(y, 0) /\ y.starts = x.starts
             /\ \A m : Has(y.queue, m) => Has(x.queue, m)
             /\ \A active, there, listening : PodOK(x, active, there, listening, 0) =>
                  LET rest == {k \in listening : x.starts[k].on # id}
                  IN  /\ PodOK(y, active, there, rest, 0)
                      /\ active = id => PodOK(y, NoStream, there, rest, 0)
<1> DEFINE y == Hearing(x)
           q == Tail(x.queue)
<1>1. /\ y \in StreamRecords /\ y.wires = x.wires /\ y.starts = x.starts /\ y.queue = q
      /\ OnceIn(q, PodRepeats)
      /\ \A m : Has(x.queue, m) <=> m = EndFor(id) \/ Has(q, m)
      /\ \A m, n : Before(q, m, n) => Before(x.queue, m, n)
      /\ \A m, n : Before(x.queue, m, n) => Has(q, n) /\ (m = EndFor(id) \/ Before(q, m, n))
  BY HeardPod DEF CallOK
<1> HIDE DEF y, q
<1>2. \A j : /\ StartAsked(y, j) <=> StartAsked(x, j)
             /\ Stopping(y, j) <=> Stopping(x, j)
             /\ Under(y, j) <=> Under(x, j)
  BY <1>1 DEF StartAsked, Stopping, Under
<1>3. CallOK(y, 0)
  <2>1. \A j \in Nat : Has(y.queue, ReplyOf(j)) <=> StartAsked(y, j)
    BY <1>1, <1>2, PodLettersDiffer DEF CallOK
  <2>2. \A j \in Nat \ {0} : Has(y.queue, StopOf(j)) <=> Stopping(y, j) /\ j # 0
    BY <1>1, <1>2, PodLettersDiffer DEF CallOK
  <2> QED BY <1>1, <2>1, <2>2 DEF CallOK
<1>4. ASSUME NEW active, NEW there, NEW listening, PodOK(x, active, there, listening, 0)
      PROVE  LET rest == {k \in listening : x.starts[k].on # id}
             IN  /\ PodOK(y, active, there, rest, 0)
                 /\ active = id => PodOK(y, NoStream, there, rest, 0)
  <2> DEFINE rest == {k \in listening : x.starts[k].on # id}
  <2>1. AloneOK(y, active) /\ AloneOK(y, NoStream)
    BY <1>1, <1>2, <1>4 DEF PodOK, AloneOK
  <2>2. HearOK(y, rest)
    <3>1. /\ \A j \in DOMAIN y.starts : ~Before(y.queue, ReplyOf(j), StopOf(0))
          /\ rest \subseteq DOMAIN y.starts
      BY <1>1, <1>4 DEF PodOK, HearOK
    <3>2. \A j \in rest : y.wires[y.starts[j].on] = j \/ Has(y.queue, EndFor(y.starts[j].on))
      BY <1>1, <1>4, PodLettersDiffer DEF PodOK, HearOK
    <3>3. \A j \in DOMAIN y.starts : StartAsked(y, j) =>
            \/ y.wires[y.starts[j].on] = j
            \/ Before(y.queue, ReplyOf(j), EndFor(y.starts[j].on))
      BY <1>1, <1>2, <1>4, PodLettersDiffer DEF PodOK, HearOK
    <3> HIDE DEF rest
    <3> QED BY <3>1, <3>2, <3>3 DEF HearOK
  <2>3. Has(x.queue, EndFor(id))
    BY <1>1
  <2>4. ASSUME NEW c \in ContainerSet
        PROVE  /\ WireOK(y, active, there, rest, 0, c)
               /\ active = id => WireOK(y, NoStream, there, rest, 0, c)
    <3>1. WireOK(x, active, there, listening, 0, c)
      BY <1>4 DEF PodOK
    <3>2. CASE x.wires[c] = 0
      BY <1>1, <3>2 DEF WireOK
    <3>3. CASE StartAsked(x, x.wires[c])
      <4> HIDE DEF rest
      <4> QED BY <1>1, <1>2, <3>1, <3>3 DEF WireOK
    <3>4. CASE x.wires[c] # 0 /\ ~StartAsked(x, x.wires[c])
      <4>1. c # id /\ active = c
        BY <2>3, <3>1, <3>4 DEF WireOK
      <4>2. x.wires[c] \in rest
        BY <3>1, <3>4, <4>1 DEF WireOK
      <4> HIDE DEF rest
      <4> QED BY <1>1, <1>2, <3>1, <3>4, <4>1, <4>2 DEF WireOK
    <3> QED BY <3>2, <3>3, <3>4
  <2> HIDE DEF rest
  <2>5. PodOK(y, active, there, rest, 0) /\ (active = id => PodOK(y, NoStream, there, rest, 0))
    BY <2>1, <2>2, <2>4 DEF PodOK
  <2> QED BY <2>5 DEF rest
<1> QED BY <1>1, <1>3, <1>4 DEF y

\* The stream of the panel, as a record.
LEMMA NowParts ==
  /\ StreamNow.wires = wires /\ StreamNow.queue = replies /\ StreamNow.starts = streamStarts
  /\ InFlight = {k \in DOMAIN streamStarts : Under(StreamNow, k)}
  /\ \A k : Under(StreamNow, k) <=> k \in InFlight
BY DEF StreamNow, InFlight, Under

\* What the stream becomes.
LEMMA StreamBecame ==
  ASSUME NEW z \in StreamRecords, StreamBecomes(z), CallOK(z, 0), PodRest',
         hearing' \subseteq DOMAIN z.starts
  PROVE  /\ PodBase' /\ StreamNow' = z
         /\ wires' = z.wires /\ replies' = z.queue /\ streamStarts' = z.starts
         /\ InFlight' = {k \in DOMAIN z.starts : Under(z, k)}
<1>1. wires' = z.wires /\ replies' = z.queue /\ streamStarts' = z.starts
  BY DEF StreamBecomes
<1>2. StreamNow' = z
  BY <1>1, StreamParts DEF StreamNow
<1>3. InFlight' = {k \in DOMAIN z.starts : Under(z, k)}
  BY <1>1 DEF InFlight, Under
<1> QED BY <1>1, <1>2, <1>3 DEF PodBase

\* The inductive invariant implies the type invariant.
LEMMA PodTyped == PodInv => PanelTypeOK
<1> SUFFICES ASSUME PodBase PROVE PanelTypeOK
  BY DEF PodInv
<1>1. StreamNow \in StreamRecords
  BY DEF PodBase
<1>2. /\ wires \in [ContainerSet -> Nat] /\ Len(streamStarts) \in Nat
      /\ \A k \in DOMAIN streamStarts : streamStarts[k] \in StartRecords
      /\ \A c \in ContainerSet : wires[c] <= Len(streamStarts)
  BY <1>1, StreamParts, NowParts
<1>3. wires \in [ContainerSet -> 0..Len(streamStarts)]
  BY <1>2
<1> QED BY <1>2, <1>3 DEF PodBase, PodRest, PanelTypeOK, StartRecords

\* The panel of a pod as it opens.
LEMMA PodInitially == PanelInit => PodInv
<1> SUFFICES ASSUME PanelInit PROVE PodInv
  OBVIOUS
<1>0. ContainersOf[1] \in ContainerSet
  <2>1. 1 \in DOMAIN ContainersOf
    BY PodAssumption
  <2> QED BY <2>1 DEF ContainerSet
<1>1. /\ wires = [c \in ContainerSet |-> 0] /\ replies = <<>> /\ streamStarts = <<>>
      /\ hearing = {} /\ activeStream = NoStream /\ streaming = FALSE
      /\ linesShown = [c \in ContainerSet |-> 0] /\ oddly = {}
      /\ panel = [mounted |-> TRUE, container |-> ContainersOf[1], tab |-> "logs"]
      /\ podEvents = [loaded |-> FALSE, loading |-> FALSE, shown |-> FALSE, live |-> FALSE]
      /\ panelClicks = 0 /\ polls = 0
  BY DEF PanelInit, NoneShown
<1>2. PodRest
  <2>1. panel \in [mounted: BOOLEAN, container: ContainerSet, tab: Tabs]
    BY <1>0, <1>1 DEF Tabs
  <2>2. linesShown \in [ContainerSet -> Nat]
    BY <1>1
  <2>3. podEvents \in [loaded: BOOLEAN, loading: BOOLEAN, shown: BOOLEAN, live: BOOLEAN]
    BY <1>1
  <2>4. panelClicks \in 0..MaxPanelClicks /\ polls \in 0..MaxPolls
    BY <1>1, PodAssumption
  <2> QED BY <1>1, <2>1, <2>2, <2>3, <2>4 DEF PodRest
<1>3. StreamNow \in StreamRecords
  BY <1>1 DEF StreamNow, StreamRecords, StreamShapes
<1>4. \A m, n : ~Has(<<>>, m) /\ ~Before(<<>>, m, n)
  BY DEF Has, Before
<1>5. /\ StreamNow.wires = wires /\ StreamNow.queue = <<>> /\ StreamNow.starts = <<>>
      /\ InFlight = {}
      /\ \A k : ~Under(StreamNow, k) /\ ~StartAsked(StreamNow, k) /\ ~Stopping(StreamNow, k)
  BY <1>1 DEF StreamNow, InFlight, Under, StartAsked, Stopping
<1>6. CallOK(StreamNow, 0)
  BY <1>4, <1>5 DEF CallOK, OnceIn
<1>7. PodOK(StreamNow, activeStream, panel.mounted, hearing, 0)
  BY <1>1, <1>5 DEF PodOK, AloneOK, HearOK, WireOK
<1>8. ButtonOK
  BY <1>1, <1>5 DEF ButtonOK
<1>9. PodBase
  BY <1>1, <1>2, <1>3, <1>6 DEF PodBase
<1>10. CalmOK
  <2>1. \A c \in ContainerSet : linesShown[c] <= 1
    BY <1>1
  <2> QED BY <1>7, <1>8, <2>1 DEF CalmOK
<1>11. PlaceOK
  BY <1>1, <1>5 DEF PlaceOK, ContainerOK
<1>12. TabOK
  BY <1>1 DEF TabOK, PodEventsOK
<1> QED BY <1>9, <1>10, <1>11, <1>12 DEF PodInv

\* The inductive invariant implies what the panel is to show.
LEMMA PodImplies == PodInv => PodPanelTrue
<1> SUFFICES ASSUME PodInv PROVE PodPanelTrue
  OBVIOUS
<1>1. /\ PodBase /\ CalmOK /\ PlaceOK /\ TabOK /\ PanelTypeOK
      /\ StreamNow \in StreamRecords /\ CallOK(StreamNow, 0)
      /\ \A c \in ContainerSet : linesShown[c] \in Nat
  BY PodTyped DEF PodInv, PodBase, PodRest
<1>2. LinesOfContainer
  <2> SUFFICES ASSUME {"containerWhileStarting", "containerReset"} \cap oddly = {},
                      NEW c \in ContainerSet, c # panel.container, linesShown[c] > 0
               PROVE  FALSE
    BY DEF LinesOfContainer
  <2>2. linesShown[c] = 0
    BY <1>1 DEF PlaceOK, ContainerOK
  <2>3. QED
    BY <2>2
<1>3. LinesOnce
  <2> SUFFICES ASSUME "startedTwice" \notin oddly, NEW c \in ContainerSet, linesShown[c] > 1
               PROVE  FALSE
    BY DEF LinesOnce
  <2>1. linesShown[c] <= 1 /\ linesShown[c] \in Nat
    BY <1>1 DEF CalmOK
  <2> QED BY <2>1
<1>4. ASSUME QueueEmpty PROVE \A k : ~StartAsked(StreamNow, k) /\ ~Stopping(StreamNow, k)
  <2>1. \A m : ~Has(StreamNow.queue, m)
    BY <1>4, NowParts DEF QueueEmpty, Has
  <2>2. \A k : StartAsked(StreamNow, k) \/ Stopping(StreamNow, k) => k \in Nat \ {0}
    BY <1>1, StreamParts DEF StartAsked, Stopping
  <2> QED BY <1>1, <2>1, <2>2 DEF CallOK
<1>5. StreamIsKnown
  <2> SUFFICES ASSUME QueueEmpty, "startedTwice" \notin oddly, NEW c \in ContainerSet, wires[c] # 0
               PROVE  c = activeStream /\ panel.mounted
    BY DEF StreamIsKnown
  <2>1. WireOK(StreamNow, activeStream, panel.mounted, hearing, 0, c)
    BY <1>1 DEF CalmOK, PodOK
  <2> QED BY <1>4, <2>1, NowParts DEF WireOK
<1>6. ButtonTells
  <2> SUFFICES ASSUME QueueEmpty, panel.mounted,
                      oddly \cap {"stoppedEarly", "startedTwice", "startedWhileStopping"} = {}
               PROVE  streaming = (activeStream # NoStream)
    BY DEF ButtonTells
  <2>1. ButtonOK
    BY <1>1 DEF CalmOK
  <2>2. InFlight = {}
    <3>1. \A k \in InFlight : StartAsked(StreamNow, k)
      BY <2>1 DEF ButtonOK, StartAsked, InFlight, StreamNow
    <3> QED BY <1>4, <3>1
  <2>3. streaming \in BOOLEAN
    BY <1>1 DEF PodBase, PodRest
  <2>4. streaming <=> activeStream # NoStream
    BY <2>1, <2>2, Zenon DEF ButtonOK
  <2> QED BY <2>3, <2>4
<1>7. EventsCome
  BY <1>1 DEF EventsCome, TabOK, PodEventsOK
<1> QED BY <1>1, <1>2, <1>3, <1>5, <1>6, <1>7 DEF PodPanelTrue

\* What the inductive invariant says, part by part.
LEMMA PodFacts ==
  ASSUME PodInv
  PROVE  /\ PodBase /\ CalmOK /\ PlaceOK /\ TabOK /\ PodRest
         /\ StreamNow \in StreamRecords /\ CallOK(StreamNow, 0)
         /\ hearing \subseteq DOMAIN streamStarts
         /\ panel.mounted \in BOOLEAN /\ panel.container \in ContainerSet /\ panel.tab \in Tabs
         /\ activeStream \in ContainerSet \cup {NoStream} /\ streaming \in BOOLEAN
         /\ linesShown \in [ContainerSet -> Nat]
         /\ \A k \in DOMAIN streamStarts : streamStarts[k].on \in ContainerSet /\ k \in Nat /\ k # 0
         /\ StreamNow.wires = wires /\ StreamNow.queue = replies /\ StreamNow.starts = streamStarts
<1>1. PodBase /\ CalmOK /\ PlaceOK /\ TabOK /\ PodRest /\ StreamNow \in StreamRecords
      /\ CallOK(StreamNow, 0) /\ hearing \subseteq DOMAIN streamStarts
  BY DEF PodInv, PodBase
<1>2. \A k \in DOMAIN streamStarts : streamStarts[k].on \in ContainerSet /\ k \in Nat /\ k # 0
  BY <1>1, StreamParts, NowParts
<1>3. /\ panel.mounted \in BOOLEAN /\ panel.container \in ContainerSet /\ panel.tab \in Tabs
      /\ activeStream \in ContainerSet \cup {NoStream} /\ streaming \in BOOLEAN
      /\ linesShown \in [ContainerSet -> Nat]
  BY <1>1 DEF PodRest
<1> QED BY <1>1, <1>2, <1>3, NowParts

\* No lines are shown.
LEMMA NoLines ==
  /\ NoneShown \in [ContainerSet -> Nat]
  /\ \A c \in ContainerSet : NoneShown[c] = 0 /\ NoneShown[c] <= 1
<1>1. NoneShown \in [ContainerSet -> Nat] /\ \A c \in ContainerSet : NoneShown[c] = 0
  BY DEF NoneShown
<1> QED BY <1>1

\* A click on the panel.
LEMMA PanelClicked ==
  ASSUME PodRest, PanelClick
  PROVE  panel.mounted /\ panelClicks' \in 0..MaxPanelClicks /\ polls' \in 0..MaxPolls
<1>1. panelClicks \in Nat /\ panelClicks < MaxPanelClicks /\ panelClicks' = panelClicks + 1
      /\ panel.mounted /\ polls' = polls /\ polls \in 0..MaxPolls
  BY DEF PodRest, PanelClick
<1> QED BY <1>1, PodAssumption

\* The button STREAM.
LEMMA StreamClicked ==
  ASSUME PodInv, ClickStream PROVE PodInv'
<1> DEFINE c == panel.container
           z == StartStream(StreamNow, c, activeStream)
           k == Len(streamStarts) + 1
           phase == IF activeStream = NoStream THEN "asked" ELSE "stopping"
<1>0. /\ CalmOK /\ PlaceOK /\ TabOK /\ PodRest
      /\ StreamNow \in StreamRecords /\ CallOK(StreamNow, 0)
      /\ hearing \subseteq DOMAIN streamStarts /\ c \in ContainerSet
      /\ activeStream \in ContainerSet \cup {NoStream}
      /\ linesShown \in [ContainerSet -> Nat]
      /\ StreamNow.queue = replies /\ StreamNow.starts = streamStarts
  BY PodFacts
<1>1. /\ ~streaming /\ StreamBecomes(z) /\ oddly' = oddly \cup StreamOverlaps
      /\ PanelClick
      /\ activeStream = NoStream => streaming' = TRUE /\ linesShown' = NoneShown
      /\ activeStream # NoStream => streaming' = streaming /\ linesShown' = linesShown
      /\ UNCHANGED <<panel, activeStream, hearing, podEvents>>
  BY DEF ClickStream
<1>2. /\ Starting(StreamNow, z, c, phase)
      /\ PodOK(StreamNow, activeStream, panel.mounted, hearing, 0) /\ InFlight = {} =>
           PodOK(z, activeStream, panel.mounted, hearing, 0)
  <2>1. InFlight = {} => \A j : ~Under(StreamNow, j)
    BY NowParts
  <2>2. CASE activeStream = NoStream
    BY <1>0, <2>1, <2>2, StartOpens
  <2>3. CASE activeStream \in ContainerSet
    <3>1. activeStream # NoStream
      BY <2>3, PodAssumption
    <3> QED BY <1>0, <2>1, <2>3, <3>1, StartStops
  <2> QED BY <1>0, <2>2, <2>3
<1> HIDE DEF z
<1>3. /\ z \in StreamRecords /\ CallOK(z, 0) /\ k \notin DOMAIN streamStarts
      /\ DOMAIN z.starts = DOMAIN streamStarts \cup {k}
      /\ \A j \in DOMAIN streamStarts :
           z.starts[j].on = streamStarts[j].on /\ z.starts[j].phase = streamStarts[j].phase
      /\ z.starts[k].on = c /\ z.starts[k].phase = phase
      /\ Has(z.queue, StopOf(0)) <=> Has(replies, StopOf(0))
  <2>1. /\ z \in StreamRecords /\ CallOK(z, 0) /\ k \notin DOMAIN streamStarts /\ k # 0
        /\ DOMAIN z.starts = DOMAIN streamStarts \cup {k}
        /\ \A j \in DOMAIN streamStarts :
             z.starts[j].on = streamStarts[j].on /\ z.starts[j].phase = streamStarts[j].phase
        /\ z.starts[k].on = c /\ z.starts[k].phase = phase
    BY <1>0, <1>2 DEF Starting
  <2>2. Has(z.queue, StopOf(0)) <=> Has(replies, StopOf(0))
    BY <1>0, <1>2, <2>1 DEF Starting
  <2> QED BY <2>1, <2>2
<1> HIDE DEF k, c
<1>4. PodRest'
  <2>1. panelClicks' \in 0..MaxPanelClicks /\ polls' \in 0..MaxPolls
    BY <1>0, <1>1, PanelClicked
  <2>2. linesShown' \in [ContainerSet -> Nat] /\ streaming' \in BOOLEAN
    BY <1>0, <1>1, NoLines DEF PodRest
  <2> QED BY <1>0, <1>1, <2>1, <2>2 DEF PodRest
<1>5. /\ PodBase' /\ StreamNow' = z /\ replies' = z.queue /\ streamStarts' = z.starts
      /\ InFlight' = {j \in DOMAIN z.starts : Under(z, j)}
  <2>1. hearing' \subseteq DOMAIN z.starts
    BY <1>0, <1>1, <1>3
  <2> QED BY <1>1, <1>3, <1>4, <2>1, StreamBecame
<1>6. InFlight' = InFlight \cup {k}
  BY <1>3, <1>5 DEF Under, InFlight
<1>7. CalmOK'
  <2> SUFFICES ASSUME "startedTwice" \notin oddly'
               PROVE  /\ PodOK(StreamNow, activeStream, panel.mounted, hearing, 0)'
                      /\ \A d \in ContainerSet : linesShown'[d] <= 1
                      /\ {"stoppedEarly", "startedWhileStopping"} \cap oddly' = {} => ButtonOK'
    BY DEF CalmOK
  <2>1. "startedTwice" \notin oddly /\ InFlight = {}
    BY <1>1 DEF StreamOverlaps
  <2>2. /\ PodOK(StreamNow, activeStream, panel.mounted, hearing, 0)
        /\ \A d \in ContainerSet : linesShown[d] <= 1
        /\ {"stoppedEarly", "startedWhileStopping"} \cap oddly = {} => ButtonOK
    BY <1>0, <1>1, <2>1 DEF CalmOK, PanelClick
  <2>3. PodOK(StreamNow, activeStream, panel.mounted, hearing, 0)'
    BY <1>1, <1>2, <1>5, <2>1, <2>2
  <2>4. \A d \in ContainerSet : linesShown'[d] <= 1
    BY <1>1, <2>2, NoLines
  <2>5. ASSUME {"stoppedEarly", "startedWhileStopping"} \cap oddly' = {} PROVE ButtonOK'
    <3>1. ~Has(replies, StopOf(0)) /\ {"stoppedEarly", "startedWhileStopping"} \cap oddly = {}
      BY <1>1, <2>5 DEF StreamOverlaps, Has, StopOf
    <3>2. activeStream = NoStream
      BY <1>1, <2>2, <3>1 DEF ButtonOK
    <3>3. InFlight' = {k} /\ streamStarts'[k].phase = "asked"
      BY <1>3, <1>5, <1>6, <2>1, <3>2
    <3>4. streaming' = TRUE /\ activeStream' = activeStream /\ ~Has(replies', StopOf(0))
      BY <1>1, <1>3, <1>5, <3>1, <3>2
    <3> QED BY <3>3, <3>4 DEF ButtonOK
  <2> QED BY <2>3, <2>4, <2>5
<1>8. PlaceOK'
  <2> SUFFICES ASSUME {"containerWhileStarting", "containerReset"} \cap oddly' = {}
               PROVE  ContainerOK'
    BY DEF PlaceOK
  <2>1. ContainerOK
    BY <1>0, <1>1 DEF PlaceOK
  <2>2. \A j \in InFlight' : streamStarts'[j].on = panel'.container
    BY <1>1, <1>3, <1>5, <1>6, <2>1 DEF ContainerOK, InFlight, c
  <2>3. \A d \in ContainerSet : d # panel'.container => linesShown'[d] = 0
    BY <1>1, <2>1, NoLines DEF ContainerOK
  <2> QED BY <1>1, <2>1, <2>2, <2>3 DEF ContainerOK
<1>9. TabOK'
  BY <1>0, <1>1 DEF TabOK, PodEventsOK
<1> QED BY <1>5, <1>7, <1>8, <1>9 DEF PodInv

\* The button STOP.
LEMMA StopPressed ==
  ASSUME PodInv, ClickStop PROVE PodInv'
<1> DEFINE v == CloseWire(StreamNow, activeStream)
           z == IF activeStream = NoStream THEN StreamNow ELSE Reply(v, StopOf(0))
<1>0. /\ CalmOK /\ PlaceOK /\ TabOK /\ PodRest
      /\ StreamNow \in StreamRecords /\ CallOK(StreamNow, 0)
      /\ hearing \subseteq DOMAIN streamStarts
      /\ activeStream \in ContainerSet \cup {NoStream}
      /\ linesShown \in [ContainerSet -> Nat]
      /\ StreamNow.wires = wires /\ StreamNow.queue = replies /\ StreamNow.starts = streamStarts
  BY PodFacts
<1>1. /\ streaming /\ StreamBecomes(z) /\ PanelClick
      /\ oddly' = oddly \cup (IF InFlight # {} THEN {"stoppedEarly"} ELSE {})
      /\ activeStream = NoStream => streaming' = FALSE
      /\ activeStream # NoStream => streaming' = streaming
      /\ UNCHANGED <<panel, activeStream, hearing, linesShown, podEvents>>
  BY <1>0 DEF ClickStop, StreamBecomes, StopOf
<1>2. /\ z \in StreamRecords /\ CallOK(z, 0) /\ z.starts = streamStarts
      /\ activeStream = NoStream => z.queue = replies
      /\ PodOK(StreamNow, activeStream, panel.mounted, hearing, 0) =>
           PodOK(z, activeStream, panel.mounted, hearing, 0)
  <2>1. CASE activeStream = NoStream
    BY <1>0, <2>1
  <2>2. CASE activeStream \in ContainerSet
    <3>1. activeStream # NoStream /\ z = Reply(v, StopOf(0))
      BY <2>2, PodAssumption
    <3>2. /\ v \in StreamRecords /\ CallOK(v, 0) /\ v.starts = streamStarts
          /\ PodOK(StreamNow, activeStream, panel.mounted, hearing, 0) =>
               PodOK(v, activeStream, panel.mounted, hearing, 0)
      BY <1>0, <2>2, PodClosedKeeps
    <3>3. PodOK(StreamNow, activeStream, panel.mounted, hearing, 0) =>
            /\ \A c \in ContainerSet : v.wires[c] = 0
            /\ \A j : ~StartAsked(StreamNow, j)
      BY <1>0, <2>2, KnownClosed
    <3>4. \A j : StartAsked(v, j) <=> StartAsked(StreamNow, j)
      BY <1>0, <3>2 DEF StartAsked
    <3> HIDE DEF v
    <3>5. /\ Reply(v, StopOf(0)) \in StreamRecords /\ CallOK(Reply(v, StopOf(0)), 0)
          /\ Reply(v, StopOf(0)).starts = v.starts
          /\ \A active, on, listening :
               /\ PodOK(v, active, on, listening, 0)
               /\ \A c \in ContainerSet : v.wires[c] = 0
               /\ \A j : ~StartAsked(v, j)
               => PodOK(Reply(v, StopOf(0)), active, on, listening, 0)
      BY <3>2, StopClicked
    <3> QED BY <3>1, <3>2, <3>3, <3>4, <3>5
  <2> QED BY <1>0, <2>1, <2>2
<1> HIDE DEF z
<1>4. PodRest'
  <2>1. panelClicks' \in 0..MaxPanelClicks /\ polls' \in 0..MaxPolls
    BY <1>0, <1>1, PanelClicked
  <2>2. streaming' \in BOOLEAN
    BY <1>0, <1>1 DEF PodRest
  <2> QED BY <1>0, <1>1, <2>1, <2>2 DEF PodRest
<1>5. /\ PodBase' /\ StreamNow' = z /\ replies' = z.queue /\ streamStarts' = z.starts
      /\ InFlight' = {j \in DOMAIN z.starts : Under(z, j)}
  <2>1. hearing' \subseteq DOMAIN z.starts
    BY <1>0, <1>1, <1>2
  <2> QED BY <1>1, <1>2, <1>4, <2>1, StreamBecame
<1>6. InFlight' = InFlight /\ streamStarts' = streamStarts
  BY <1>2, <1>5 DEF Under, InFlight
<1>7. CalmOK'
  <2> SUFFICES ASSUME "startedTwice" \notin oddly'
               PROVE  /\ PodOK(StreamNow, activeStream, panel.mounted, hearing, 0)'
                      /\ \A d \in ContainerSet : linesShown'[d] <= 1
                      /\ {"stoppedEarly", "startedWhileStopping"} \cap oddly' = {} => ButtonOK'
    BY DEF CalmOK
  <2>2. /\ PodOK(StreamNow, activeStream, panel.mounted, hearing, 0)
        /\ \A d \in ContainerSet : linesShown[d] <= 1
        /\ {"stoppedEarly", "startedWhileStopping"} \cap oddly = {} => ButtonOK
    BY <1>0, <1>1 DEF CalmOK, PanelClick
  <2>3. PodOK(StreamNow, activeStream, panel.mounted, hearing, 0)'
    BY <1>1, <1>2, <1>5, <2>2
  <2>4. ASSUME {"stoppedEarly", "startedWhileStopping"} \cap oddly' = {} PROVE ButtonOK'
    <3>1. InFlight = {} /\ {"stoppedEarly", "startedWhileStopping"} \cap oddly = {}
      BY <1>1, <2>4
    <3>2. streaming' <=> activeStream' # NoStream
      BY <1>1, Zenon
    <3> QED BY <1>6, <3>1, <3>2, Zenon DEF ButtonOK
  <2> QED BY <1>1, <2>2, <2>3, <2>4
<1>8. PlaceOK'
  BY <1>0, <1>1, <1>6 DEF PlaceOK, ContainerOK
<1>9. TabOK'
  BY <1>0, <1>1 DEF TabOK, PodEventsOK
<1> QED BY <1>5, <1>7, <1>8, <1>9 DEF PodInv

\* What a step that names no odd event leaves of the tab and the marks.
LEMMA TabKept ==
  ASSUME TabOK, oddly' = oddly, podEvents' = podEvents, panel' = panel
  PROVE  TabOK'
BY DEF TabOK, PodEventsOK

\* A stop has returned.
LEMMA StopReturns ==
  ASSUME PodInv, NEW k \in Nat, StreamStopped(k) PROVE PodInv'
<1> DEFINE x == Hearing(StreamNow)
           z == IF k # 0 /\ panel.mounted THEN OpenWire(x, k)
                ELSE IF k = 0 THEN x ELSE Turned(x, k, "over")
           opens == k # 0 /\ panel.mounted
<1>0. /\ CalmOK /\ PlaceOK /\ TabOK /\ PodRest
      /\ StreamNow \in StreamRecords /\ CallOK(StreamNow, 0)
      /\ hearing \subseteq DOMAIN streamStarts
      /\ panel.mounted \in BOOLEAN
      /\ linesShown \in [ContainerSet -> Nat] /\ streaming \in BOOLEAN
      /\ StreamNow.queue = replies /\ StreamNow.starts = streamStarts
  BY PodFacts
<1>1. /\ replies # <<>> /\ Head(replies) = StopOf(k) /\ activeStream' = NoStream
      /\ StreamBecomes(z)
      /\ opens => streaming' = TRUE /\ linesShown' = NoneShown
      /\ ~opens => streaming' = (streaming /\ ~panel.mounted) /\ linesShown' = linesShown
      /\ UNCHANGED <<panel, hearing, podEvents, oddly, panelClicks, polls>>
  BY DEF StreamStopped, StopOf, Hearing, Turned
<1>2. /\ x \in StreamRecords /\ CallOK(x, k) /\ x.starts = streamStarts
      /\ k # 0 => Stopping(StreamNow, k)
      /\ \A m : Has(x.queue, m) => Has(replies, m)
      /\ PodOK(StreamNow, activeStream, panel.mounted, hearing, 0) =>
           PodOK(x, NoStream, panel.mounted, hearing, k)
  BY <1>0, <1>1, StopHeard
<1> HIDE DEF x
<1>3. k # 0 => Stopping(x, k) /\ k \in DOMAIN streamStarts /\ streamStarts[k].phase = "stopping"
  BY <1>0, <1>2 DEF Stopping
<1>4. /\ z \in StreamRecords /\ CallOK(z, 0) /\ DOMAIN z.starts = DOMAIN streamStarts
      /\ \A j \in DOMAIN streamStarts :
           /\ z.starts[j].on = streamStarts[j].on
           /\ z.starts[j].phase = streamStarts[j].phase \/ j = k
      /\ k = 0 => z = x
      /\ PodOK(x, NoStream, panel.mounted, hearing, k) =>
           PodOK(z, NoStream, panel.mounted, hearing, 0)
  <2>1. CASE k = 0
    BY <1>2, <2>1
  <2>2. CASE opens
    <3>1. z = OpenWire(x, k) /\ k # 0
      BY <2>2
    <3>2. /\ OpenWire(x, k) \in StreamRecords /\ CallOK(OpenWire(x, k), 0)
          /\ DOMAIN OpenWire(x, k).starts = DOMAIN x.starts
          /\ \A j \in DOMAIN x.starts :
               /\ OpenWire(x, k).starts[j].on = x.starts[j].on
               /\ OpenWire(x, k).starts[j].phase = IF j = k THEN "asked" ELSE x.starts[j].phase
          /\ PodOK(x, NoStream, panel.mounted, hearing, k) =>
               PodOK(OpenWire(x, k), NoStream, panel.mounted, hearing, 0)
      BY <1>2, <1>3, <3>1, OpenedKeeps
    <3> HIDE DEF z
    <3> QED BY <1>2, <3>1, <3>2
  <2>3. CASE k # 0 /\ ~opens
    BY <1>2, <1>3, <2>3, StartGivenUp
  <2> QED BY <2>1, <2>2, <2>3
<1> HIDE DEF z
<1>5. PodRest'
  <2>1. linesShown' \in [ContainerSet -> Nat] /\ streaming' \in BOOLEAN
    BY <1>0, <1>1, NoLines, Zenon
  <2> QED BY <1>0, <1>1, <2>1 DEF PodRest
<1>6. /\ PodBase' /\ StreamNow' = z /\ replies' = z.queue /\ streamStarts' = z.starts
      /\ InFlight' = {j \in DOMAIN z.starts : Under(z, j)}
  <2>1. hearing' \subseteq DOMAIN z.starts
    BY <1>0, <1>1, <1>4
  <2> QED BY <1>1, <1>4, <1>5, <2>1, StreamBecame
<1>7. InFlight' \subseteq InFlight
  <2>1. 0 \notin DOMAIN streamStarts
    BY PodFacts
  <2> QED BY <1>3, <1>4, <1>6, <2>1 DEF Under, InFlight
<1>8. CalmOK'
  <2> SUFFICES ASSUME "startedTwice" \notin oddly'
               PROVE  /\ PodOK(StreamNow, activeStream, panel.mounted, hearing, 0)'
                      /\ \A d \in ContainerSet : linesShown'[d] <= 1
                      /\ panel.mounted /\ {"stoppedEarly", "startedWhileStopping"} \cap oddly = {}
                           => ButtonOK'
    BY <1>1 DEF CalmOK
  <2>1. /\ PodOK(StreamNow, activeStream, panel.mounted, hearing, 0)
        /\ \A d \in ContainerSet : linesShown[d] <= 1
        /\ panel.mounted /\ {"stoppedEarly", "startedWhileStopping"} \cap oddly = {} => ButtonOK
    BY <1>0, <1>1 DEF CalmOK
  <2>2. PodOK(StreamNow, activeStream, panel.mounted, hearing, 0)'
    BY <1>1, <1>2, <1>4, <1>6, <2>1
  <2>3. \A d \in ContainerSet : linesShown'[d] <= 1
    BY <1>1, <2>1, NoLines
  <2>4. ASSUME panel.mounted, {"stoppedEarly", "startedWhileStopping"} \cap oddly = {}
        PROVE  ButtonOK'
    <3>1. ButtonOK
      BY <2>1, <2>4
    <3>2. k = 0
      <4>1. k # 0 => k \in InFlight /\ streamStarts[k].phase # "asked"
        BY <1>3 DEF InFlight
      <4> QED BY <3>1, <4>1 DEF ButtonOK
    <3>3. Has(replies, StopOf(0))
      <4>1. replies \in Seq(PodLetters)
        BY <1>0, StreamParts
      <4>2. Has(replies, Head(replies))
        BY <1>1, <4>1, HasTail
      <4> QED BY <1>1, <3>2, <4>2
    <3>4. InFlight' = {}
      BY <1>7, <3>1, <3>3 DEF ButtonOK
    <3>5. streaming' = FALSE
      BY <1>1, <2>4, <3>2
    <3> QED BY <1>1, <3>4, <3>5 DEF ButtonOK
  <2> QED BY <2>2, <2>3, <2>4
<1>9. PlaceOK'
  <2> SUFFICES ASSUME {"containerWhileStarting", "containerReset"} \cap oddly = {}
               PROVE  ContainerOK'
    BY <1>1 DEF PlaceOK
  <2>1. ContainerOK
    BY <1>0 DEF PlaceOK
  <2>2. \A j \in InFlight' : streamStarts'[j].on = panel.container
    BY <1>4, <1>6, <1>7, <2>1 DEF ContainerOK, InFlight
  <2>3. \A d \in ContainerSet : d # panel.container => linesShown'[d] = 0
    BY <1>1, <2>1, NoLines DEF ContainerOK
  <2> QED BY <1>1, <2>2, <2>3 DEF ContainerOK
<1>10. TabOK'
  BY <1>0, <1>1, TabKept
<1> QED BY <1>6, <1>8, <1>9, <1>10 DEF PodInv

\* A reply has come.
LEMMA ReplyReturns ==
  ASSUME PodInv, NEW k \in DOMAIN streamStarts, Replied(k) PROVE PodInv'
<1> DEFINE c == streamStarts[k].on
           x == StartAnswered(StreamNow, k)
           z == IF panel.mounted THEN x ELSE CloseWire(x, c)
           known == IF panel.mounted THEN c ELSE NoStream
<1>0. /\ CalmOK /\ PlaceOK /\ TabOK /\ PodRest
      /\ StreamNow \in StreamRecords /\ CallOK(StreamNow, 0)
      /\ hearing \subseteq DOMAIN streamStarts
      /\ panel.mounted \in BOOLEAN /\ c \in ContainerSet
      /\ linesShown \in [ContainerSet -> Nat] /\ streaming \in BOOLEAN
      /\ StreamNow.queue = replies /\ StreamNow.starts = streamStarts
  BY PodFacts
<1>1. /\ replies # <<>> /\ Head(replies) = ReplyOf(k) /\ activeStream' = known
      /\ StreamBecomes(z) /\ hearing' = hearing \cup {k}
      /\ UNCHANGED <<panel, streaming, linesShown, podEvents, oddly, panelClicks, polls>>
  BY DEF Replied, ReplyOf, StartAnswered, Stale
<1>2. /\ x \in StreamRecords /\ CallOK(x, 0) /\ StartAsked(StreamNow, k)
      /\ DOMAIN x.starts = DOMAIN streamStarts
      /\ \A j \in DOMAIN streamStarts :
           /\ x.starts[j].on = streamStarts[j].on
           /\ x.starts[j].phase = IF j = k THEN "over" ELSE streamStarts[j].phase
      /\ \A m : Has(x.queue, m) => Has(replies, m)
      /\ PodOK(StreamNow, activeStream, panel.mounted, hearing, 0) =>
           PodOK(x, c, TRUE, hearing \cup {k}, 0)
  <2>1. /\ StreamNow.queue # <<>> /\ Head(StreamNow.queue) = ReplyOf(k)
        /\ k \in DOMAIN StreamNow.starts
    BY <1>0, <1>1
  <2>2. /\ x \in StreamRecords /\ CallOK(x, 0) /\ StartAsked(StreamNow, k)
        /\ DOMAIN x.starts = DOMAIN StreamNow.starts
        /\ \A j \in DOMAIN StreamNow.starts :
             /\ x.starts[j].on = StreamNow.starts[j].on
             /\ x.starts[j].phase = IF j = k THEN "over" ELSE StreamNow.starts[j].phase
        /\ \A m : Has(x.queue, m) => Has(StreamNow.queue, m)
        /\ \A active, there, listening : PodOK(StreamNow, active, there, listening, 0) =>
             PodOK(x, StreamNow.starts[k].on, TRUE, listening \cup {k}, 0)
    BY <1>0, <2>1, ReplyHeard
  <2> QED BY <1>0, <2>2
<1> HIDE DEF x, c
<1>3. /\ z \in StreamRecords /\ CallOK(z, 0) /\ z.starts = x.starts
      /\ PodOK(x, c, TRUE, hearing \cup {k}, 0) =>
           PodOK(z, known, panel.mounted, hearing \cup {k}, 0)
  <2>1. CASE panel.mounted
    BY <1>0, <1>2, <2>1
  <2>2. CASE ~panel.mounted
    <3>1. CloseWire(x, c) \in StreamRecords /\ CallOK(CloseWire(x, c), 0)
          /\ CloseWire(x, c).starts = x.starts
      BY <1>0, <1>2, PodClosedKeeps
    <3>2. PodOK(x, c, TRUE, hearing \cup {k}, 0) =>
            PodOK(CloseWire(x, c), NoStream, panel.mounted, hearing \cup {k}, 0)
      BY <1>0, <1>2, KnownClosed
    <3> QED BY <2>2, <3>1, <3>2
  <2> QED BY <2>1, <2>2
<1> HIDE DEF z
<1>4. PodRest'
  BY <1>0, <1>1 DEF PodRest
<1>5. /\ PodBase' /\ StreamNow' = z /\ replies' = z.queue /\ streamStarts' = z.starts
      /\ InFlight' = {j \in DOMAIN z.starts : Under(z, j)}
  <2>1. hearing' \subseteq DOMAIN z.starts
    BY <1>0, <1>1, <1>2, <1>3
  <2> QED BY <1>1, <1>3, <1>4, <2>1, StreamBecame
<1>6. k \in InFlight /\ InFlight' = InFlight \ {k}
  <2>1. streamStarts[k].phase = "asked"
    BY <1>0, <1>2 DEF StartAsked
  <2> QED BY <1>2, <1>3, <1>5, <2>1 DEF Under, InFlight
<1>7. CalmOK'
  <2> SUFFICES ASSUME "startedTwice" \notin oddly
               PROVE  /\ PodOK(StreamNow, activeStream, panel.mounted, hearing, 0)'
                      /\ \A d \in ContainerSet : linesShown[d] <= 1
                      /\ panel.mounted /\ {"stoppedEarly", "startedWhileStopping"} \cap oddly = {}
                           => ButtonOK'
    BY <1>1 DEF CalmOK
  <2>1. /\ PodOK(StreamNow, activeStream, panel.mounted, hearing, 0)
        /\ \A d \in ContainerSet : linesShown[d] <= 1
        /\ panel.mounted /\ {"stoppedEarly", "startedWhileStopping"} \cap oddly = {} => ButtonOK
    BY <1>0 DEF CalmOK
  <2>2. PodOK(StreamNow, activeStream, panel.mounted, hearing, 0)'
    BY <1>1, <1>2, <1>3, <1>5, <2>1
  <2>3. ASSUME panel.mounted, {"stoppedEarly", "startedWhileStopping"} \cap oddly = {}
        PROVE  ButtonOK'
    <3>1. ButtonOK
      BY <2>1, <2>3
    <3>2. InFlight' = {}
      <4>1. \A i, j \in InFlight : i = j
        BY <1>0, <2>1, NowParts DEF PodOK, AloneOK, InFlight
      <4> QED BY <1>6, <4>1
    <3>3. streaming
      BY <1>6, <3>1 DEF ButtonOK
    <3>4. activeStream' # NoStream
      BY <1>0, <1>1, <2>3, PodAssumption
    <3> QED BY <1>1, <3>2, <3>3, <3>4 DEF ButtonOK
  <2> QED BY <2>1, <2>2, <2>3
<1>8. PlaceOK'
  <2> SUFFICES ASSUME {"containerWhileStarting", "containerReset"} \cap oddly = {}
               PROVE  ContainerOK'
    BY <1>1 DEF PlaceOK
  <2>1. ContainerOK
    BY <1>0 DEF PlaceOK
  <2>2. c = panel.container
    BY <1>6, <2>1 DEF ContainerOK, c
  <2>3. \A j \in InFlight' : streamStarts'[j].on = panel.container
    BY <1>2, <1>3, <1>5, <1>6, <2>1 DEF ContainerOK, InFlight
  <2> QED BY <1>1, <2>1, <2>2, <2>3 DEF ContainerOK
<1>9. TabOK'
  BY <1>0, <1>1, TabKept
<1> QED BY <1>5, <1>7, <1>8, <1>9 DEF PodInv

\* An end has come.
LEMMA EndReturns ==
  ASSUME PodInv, NEW id \in ContainerSet, StreamEnded(id) PROVE PodInv'
<1> DEFINE z == Hearing(StreamNow)
           heard == activeStream = id /\ hearing # Deaf(id)
<1>0. /\ CalmOK /\ PlaceOK /\ TabOK /\ PodRest
      /\ StreamNow \in StreamRecords /\ CallOK(StreamNow, 0)
      /\ hearing \subseteq DOMAIN streamStarts
      /\ panel.mounted \in BOOLEAN /\ streaming \in BOOLEAN
      /\ StreamNow.wires = wires /\ StreamNow.queue = replies /\ StreamNow.starts = streamStarts
  BY PodFacts
<1>1. /\ replies # <<>> /\ Head(replies) = EndFor(id) /\ replies' = Tail(replies)
      /\ hearing' = Deaf(id) /\ Deaf(id) = {k \in hearing : streamStarts[k].on # id}
      /\ activeStream' = IF heard THEN NoStream ELSE activeStream
      /\ streaming' = (streaming /\ ~heard)
      /\ UNCHANGED <<panel, streamStarts, wires, linesShown, podEvents, oddly, panelClicks, polls>>
  BY DEF StreamEnded, EndFor, Deaf
<1>2. /\ z \in StreamRecords /\ CallOK(z, 0) /\ z.starts = streamStarts
      /\ z.wires = wires /\ z.queue = Tail(replies)
      /\ \A m : Has(z.queue, m) => Has(replies, m)
      /\ PodOK(StreamNow, activeStream, panel.mounted, hearing, 0) =>
           /\ PodOK(z, activeStream, panel.mounted, Deaf(id), 0)
           /\ activeStream = id => PodOK(z, NoStream, panel.mounted, Deaf(id), 0)
  <2>1. /\ z \in StreamRecords /\ z.starts = streamStarts
        /\ z.wires = wires /\ z.queue = Tail(replies)
    BY <1>0, <1>1, HearingParts
  <2>2. /\ CallOK(z, 0) /\ \A m : Has(z.queue, m) => Has(replies, m)
        /\ PodOK(StreamNow, activeStream, panel.mounted, hearing, 0) =>
             /\ PodOK(z, activeStream, panel.mounted, Deaf(id), 0)
             /\ activeStream = id => PodOK(z, NoStream, panel.mounted, Deaf(id), 0)
    BY <1>0, <1>1, EndHeard
  <2> QED BY <2>1, <2>2
<1> HIDE DEF z
<1>3. StreamBecomes(z)
  BY <1>1, <1>2 DEF StreamBecomes
<1>4. PodRest'
  <2>1. streaming' \in BOOLEAN /\ activeStream' \in ContainerSet \cup {NoStream}
    BY <1>0, <1>1, Zenon DEF PodRest
  <2> QED BY <1>0, <1>1, <2>1 DEF PodRest
<1>5. PodBase' /\ StreamNow' = z
  <2>1. hearing' \subseteq DOMAIN z.starts
    BY <1>0, <1>1, <1>2
  <2> QED BY <1>2, <1>3, <1>4, <2>1, StreamBecame
<1>6. InFlight' = InFlight
  BY <1>1 DEF InFlight
<1>7. CalmOK'
  <2> SUFFICES ASSUME "startedTwice" \notin oddly
               PROVE  /\ PodOK(StreamNow, activeStream, panel.mounted, hearing, 0)'
                      /\ \A d \in ContainerSet : linesShown[d] <= 1
                      /\ panel.mounted /\ {"stoppedEarly", "startedWhileStopping"} \cap oddly = {}
                           => ButtonOK'
    BY <1>1 DEF CalmOK
  <2>1. /\ PodOK(StreamNow, activeStream, panel.mounted, hearing, 0)
        /\ \A d \in ContainerSet : linesShown[d] <= 1
        /\ panel.mounted /\ {"stoppedEarly", "startedWhileStopping"} \cap oddly = {} => ButtonOK
    BY <1>0 DEF CalmOK
  <2>2. PodOK(StreamNow, activeStream, panel.mounted, hearing, 0)'
    BY <1>1, <1>2, <1>5, <2>1
  <2>3. ASSUME panel.mounted, {"stoppedEarly", "startedWhileStopping"} \cap oddly = {}
        PROVE  ButtonOK'
    <3>1. ButtonOK
      BY <2>1, <2>3
    <3>2. Has(replies', StopOf(0)) => Has(replies, StopOf(0))
      BY <1>1, <1>2
    <3>3. heard => InFlight = {} /\ streaming' = FALSE /\ activeStream' = NoStream
      <4>1. ASSUME heard PROVE activeStream # NoStream
        BY <4>1, PodAssumption
      <4>2. \A j : StartAsked(StreamNow, j) => activeStream = NoStream
        BY <2>1 DEF PodOK, AloneOK, StartAsked
      <4>3. \A j \in InFlight : StartAsked(StreamNow, j)
        BY <1>0, <3>1 DEF ButtonOK, InFlight, StartAsked
      <4> QED BY <1>1, <4>1, <4>2, <4>3
    <3>4. ~heard => streaming' = streaming /\ activeStream' = activeStream
      BY <1>0, <1>1
    <3>5. CASE heard
      <4>1. streaming' = FALSE /\ InFlight' = {} /\ activeStream' = NoStream
        BY <1>6, <3>3, <3>5
      <4> QED BY <4>1 DEF ButtonOK
    <3>6. CASE ~heard
      BY <1>1, <1>6, <3>1, <3>2, <3>4, <3>6, Zenon DEF ButtonOK
    <3> QED BY <3>5, <3>6
  <2> QED BY <2>1, <2>2, <2>3
<1>8. PlaceOK'
  BY <1>0, <1>1, <1>6 DEF PlaceOK, ContainerOK
<1>9. TabOK'
  BY <1>0, <1>1, TabKept
<1> QED BY <1>5, <1>7, <1>8, <1>9 DEF PodInv

\* The pod or the sidecar ends a stream.
LEMMA WireEnds ==
  ASSUME PodInv, NEW id \in ContainerSet, SocketEnds(id) PROVE PodInv'
<1> DEFINE z == CloseWire(StreamNow, id)
<1>0. /\ CalmOK /\ PlaceOK /\ TabOK /\ PodRest
      /\ StreamNow \in StreamRecords /\ CallOK(StreamNow, 0)
      /\ hearing \subseteq DOMAIN streamStarts
      /\ StreamNow.wires = wires /\ StreamNow.queue = replies /\ StreamNow.starts = streamStarts
  BY PodFacts
<1>1. /\ wires[id] # 0 /\ wires' = [wires EXCEPT ![id] = 0]
      /\ replies' = Append(replies, EndFor(id))
      /\ UNCHANGED <<panel, activeStream, streaming, streamStarts, hearing, linesShown, podEvents,
                     oddly, panelClicks, polls>>
  BY DEF SocketEnds, EndFor
<1>2. /\ z \in StreamRecords /\ CallOK(z, 0) /\ z.starts = streamStarts
      /\ \A k : Has(z.queue, StopOf(k)) <=> Has(replies, StopOf(k))
      /\ PodOK(StreamNow, activeStream, panel.mounted, hearing, 0) =>
           PodOK(z, activeStream, panel.mounted, hearing, 0)
  BY <1>0, PodClosedKeeps
<1>3. StreamBecomes(z)
  BY <1>1 DEF StreamBecomes, CloseWire, StreamNow, EndFor
<1> HIDE DEF z
<1>4. PodRest'
  BY <1>0, <1>1 DEF PodRest
<1>5. PodBase' /\ StreamNow' = z /\ replies' = z.queue
  <2>1. hearing' \subseteq DOMAIN z.starts
    BY <1>0, <1>1, <1>2
  <2> QED BY <1>2, <1>3, <1>4, <2>1, StreamBecame
<1>6. InFlight' = InFlight
  BY <1>1 DEF InFlight
<1>7. CalmOK'
  <2>1. Has(replies', StopOf(0)) <=> Has(replies, StopOf(0))
    BY <1>2, <1>5
  <2>2. ButtonOK => ButtonOK'
    BY <1>1, <1>6, <2>1, Zenon DEF ButtonOK
  <2>3. PodOK(StreamNow, activeStream, panel.mounted, hearing, 0) =>
          PodOK(StreamNow, activeStream, panel.mounted, hearing, 0)'
    BY <1>1, <1>2, <1>5
  <2> QED BY <1>0, <1>1, <2>2, <2>3 DEF CalmOK
<1>8. PlaceOK'
  BY <1>0, <1>1, <1>6 DEF PlaceOK, ContainerOK
<1>9. TabOK'
  BY <1>0, <1>1, TabKept
<1> QED BY <1>5, <1>7, <1>8, <1>9 DEF PodInv

\* A line comes to each listener of its stream.
LEMMA LinesArrive ==
  ASSUME PodInv, NEW id \in ContainerSet, LinesCome(id) PROVE PodInv'
<1> DEFINE S == ShownBy(id)
<1>0. /\ PodBase /\ CalmOK /\ PlaceOK /\ TabOK /\ PodRest
      /\ StreamNow \in StreamRecords
      /\ hearing \subseteq DOMAIN streamStarts
      /\ linesShown \in [ContainerSet -> Nat]
      /\ StreamNow.wires = wires /\ StreamNow.queue = replies /\ StreamNow.starts = streamStarts
  BY PodFacts
<1>1. /\ wires[id] # 0 /\ replies = <<>>
      /\ linesShown' = [linesShown EXCEPT ![id] = IF S = {} THEN @ ELSE Cardinality(S)]
      /\ UNCHANGED <<panel, activeStream, streaming, streamStarts, wires, hearing, replies,
                     podEvents, oddly, panelClicks, polls>>
  BY DEF LinesCome
<1>2. S = IF activeStream = id THEN {k \in hearing : streamStarts[k].on = id} ELSE {}
  BY DEF ShownBy
<1> HIDE DEF S
<1>3. Cardinality(S) \in Nat
  <2>1. Len(streamStarts) \in Nat /\ DOMAIN streamStarts = 1..Len(streamStarts)
    BY <1>0, StreamParts
  <2>2. IsFiniteSet(1..Len(streamStarts))
    BY <2>1, FS_Interval
  <2>3. S \subseteq 1..Len(streamStarts)
    BY <1>0, <1>2, <2>1
  <2> QED BY <2>2, <2>3, FS_Subset, FS_CardinalityType
<1>4. /\ linesShown' \in [ContainerSet -> Nat]
      /\ \A c \in ContainerSet : c # id => linesShown'[c] = linesShown[c]
      /\ linesShown'[id] = IF S = {} THEN linesShown[id] ELSE Cardinality(S)
  BY <1>0, <1>1, <1>3
<1>5. StreamNow' = StreamNow /\ InFlight' = InFlight /\ ButtonOK' = ButtonOK
  BY <1>1 DEF StreamNow, InFlight, ButtonOK
<1>6. PodBase'
  <2>1. PodRest'
    BY <1>0, <1>1, <1>4 DEF PodRest
  <2>2. hearing' \subseteq DOMAIN streamStarts'
    BY <1>0, <1>1
  <2> QED BY <1>0, <1>5, <2>1, <2>2 DEF PodBase
<1>7. CalmOK'
  <2> SUFFICES ASSUME "startedTwice" \notin oddly
               PROVE  /\ PodOK(StreamNow, activeStream, panel.mounted, hearing, 0)'
                      /\ \A c \in ContainerSet : linesShown'[c] <= 1
                      /\ panel.mounted /\ {"stoppedEarly", "startedWhileStopping"} \cap oddly = {}
                           => ButtonOK'
    BY <1>1 DEF CalmOK
  <2>1. /\ PodOK(StreamNow, activeStream, panel.mounted, hearing, 0)
        /\ \A c \in ContainerSet : linesShown[c] <= 1
        /\ panel.mounted /\ {"stoppedEarly", "startedWhileStopping"} \cap oddly = {} => ButtonOK
    BY <1>0 DEF CalmOK
  <2>2. S = {} \/ S = {wires[id]}
    <3>1. \A m : ~Has(replies, m)
      BY <1>1 DEF Has
    <3>2. \A k \in hearing : wires[streamStarts[k].on] = k
      BY <1>0, <2>1, <3>1 DEF PodOK, HearOK
    <3> QED BY <1>2, <3>2
  <2>3. S # {} => Cardinality(S) = 1
    BY <2>2, FS_Singleton
  <2>4. \A c \in ContainerSet : linesShown'[c] <= 1
    BY <1>4, <2>1, <2>3
  <2> QED BY <1>1, <1>5, <2>1, <2>4
<1>8. PlaceOK'
  <2> SUFFICES ASSUME {"containerWhileStarting", "containerReset"} \cap oddly = {}
               PROVE  ContainerOK'
    BY <1>1 DEF PlaceOK
  <2>1. ContainerOK
    BY <1>0 DEF PlaceOK
  <2>2. \A c \in ContainerSet : c # panel.container => linesShown'[c] = 0
    <3>1. id # panel.container => S = {}
      BY <1>2, <2>1, PodAssumption DEF ContainerOK
    <3> QED BY <1>4, <2>1, <3>1 DEF ContainerOK
  <2> QED BY <1>1, <1>5, <2>1, <2>2 DEF ContainerOK
<1>9. TabOK'
  BY <1>0, <1>1, TabKept
<1> QED BY <1>6, <1>7, <1>8, <1>9 DEF PodInv

\* The effects of another container, or of a new version of the pod: what is known is
\* stopped and started again.  `c' is the container that is started, and `d' the one that
\* is selected.
LEMMA PodResetKeeps ==
  ASSUME PodInv, NEW c \in ContainerSet, NEW d \in ContainerSet,
         ResetPanel, StreamBecomes(Anew(StreamNow, c)), hearing' = hearing,
         panel' = [panel EXCEPT !.container = d],
         panelClicks' \in 0..MaxPanelClicks, polls' \in 0..MaxPolls,
         oddly \subseteq oddly',
         panel.tab = "lifecycle" => "eventsEmptied" \in oddly',
         activeStream # NoStream => StreamOverlaps \subseteq oddly',
         {"containerWhileStarting", "containerReset"} \cap oddly' = {} =>
           c = d /\ (InFlight = {} \/ c = panel.container)
  PROVE  PodInv'
<1> DEFINE z == Anew(StreamNow, c)
           k == Len(streamStarts) + 1
           anew == activeStream # NoStream
<1>0. /\ CalmOK /\ PlaceOK /\ TabOK /\ PodRest
      /\ StreamNow \in StreamRecords /\ CallOK(StreamNow, 0)
      /\ hearing \subseteq DOMAIN streamStarts
      /\ activeStream \in ContainerSet \cup {NoStream}
      /\ linesShown \in [ContainerSet -> Nat] /\ streaming \in BOOLEAN
      /\ StreamNow.queue = replies /\ StreamNow.starts = streamStarts
  BY PodFacts
<1>1. /\ panel \in [mounted: BOOLEAN, container: ContainerSet, tab: Tabs]
      /\ panel' \in [mounted: BOOLEAN, container: ContainerSet, tab: Tabs]
      /\ panel'.mounted = panel.mounted /\ panel'.container = d /\ panel'.tab = panel.tab
  BY <1>0 DEF PodRest
<1>2. /\ activeStream' = NoStream /\ linesShown' = NoneShown
      /\ anew => streaming' = TRUE
      /\ ~anew => streaming' = streaming
      /\ podEvents' = [podEvents EXCEPT !.shown = FALSE, !.loaded = FALSE]
  BY DEF ResetPanel
<1>3. /\ z \in StreamRecords /\ CallOK(z, 0) /\ k \notin DOMAIN streamStarts
      /\ ~anew => z = StreamNow
      /\ anew => DOMAIN z.starts = DOMAIN streamStarts \cup {k}
      /\ \A j \in DOMAIN streamStarts :
           z.starts[j].on = streamStarts[j].on /\ z.starts[j].phase = streamStarts[j].phase
      /\ anew => z.starts[k].on = c /\ z.starts[k].phase = "asked"
      /\ Has(z.queue, StopOf(0)) <=> Has(replies, StopOf(0))
      /\ PodOK(StreamNow, activeStream, panel.mounted, hearing, 0) /\ (InFlight = {} \/ ~anew) =>
           PodOK(z, NoStream, panel.mounted, hearing, 0)
  <2>1. k \notin DOMAIN streamStarts
    BY <1>0, StreamParts
  <2>2. CASE ~anew
    BY <1>0, <2>1, <2>2 DEF Anew
  <2>3. CASE anew
    <3>1. z = StartStream(CloseWire(StreamNow, activeStream), c, NoStream)
      BY <2>3 DEF Anew
    <3>2. InFlight = {} => \A j : ~Under(StreamNow, j)
      BY NowParts
    <3>3. /\ Starting(StreamNow, z, c, "asked")
          /\ PodOK(StreamNow, activeStream, panel.mounted, hearing, 0) /\ InFlight = {} =>
               PodOK(z, NoStream, panel.mounted, hearing, 0)
      <4>1. activeStream \in ContainerSet
        BY <1>0, <2>3
      <4> QED BY <1>0, <3>1, <3>2, <4>1, StartAnew
    <3> HIDE DEF z
    <3>4. /\ z \in StreamRecords /\ CallOK(z, 0)
          /\ DOMAIN z.starts = DOMAIN streamStarts \cup {k}
          /\ \A j \in DOMAIN streamStarts :
               z.starts[j].on = streamStarts[j].on /\ z.starts[j].phase = streamStarts[j].phase
          /\ z.starts[k].on = c /\ z.starts[k].phase = "asked"
      BY <1>0, <3>3 DEF Starting
    <3>5. Has(z.queue, StopOf(0)) <=> Has(replies, StopOf(0))
      BY <1>0, <3>3 DEF Starting
    <3> QED BY <2>1, <2>3, <3>3, <3>4, <3>5
  <2> QED BY <2>2, <2>3
<1> HIDE DEF z, k
<1>4. PodRest'
  <2>1. streaming' \in BOOLEAN
    BY <1>0, <1>2
  <2>2. podEvents' \in [loaded: BOOLEAN, loading: BOOLEAN, shown: BOOLEAN, live: BOOLEAN]
    BY <1>0, <1>2 DEF PodRest
  <2> QED BY <1>1, <1>2, <2>1, <2>2, NoLines DEF PodRest
<1>5. /\ PodBase' /\ StreamNow' = z /\ replies' = z.queue /\ streamStarts' = z.starts
      /\ InFlight' = {j \in DOMAIN z.starts : Under(z, j)}
  <2>1. hearing' \subseteq DOMAIN z.starts
    BY <1>0, <1>3
  <2>2. StreamBecomes(z)
    BY DEF z
  <2> QED BY <1>3, <1>4, <2>1, <2>2, StreamBecame
<1>6. /\ anew => InFlight' = InFlight \cup {k}
      /\ ~anew => InFlight' = InFlight
  <2>1. CASE anew
    BY <1>3, <1>5, <2>1 DEF Under, InFlight
  <2>2. CASE ~anew
    BY <1>0, <1>3, <1>5, <2>2 DEF Under, InFlight
  <2> QED BY <2>1, <2>2
<1>7. CalmOK'
  <2> SUFFICES ASSUME "startedTwice" \notin oddly'
               PROVE  /\ PodOK(StreamNow, activeStream, panel.mounted, hearing, 0)'
                      /\ \A e \in ContainerSet : linesShown'[e] <= 1
                      /\ panel.mounted /\ {"stoppedEarly", "startedWhileStopping"} \cap oddly' = {}
                           => ButtonOK'
    BY <1>1 DEF CalmOK
  <2>1. /\ PodOK(StreamNow, activeStream, panel.mounted, hearing, 0)
        /\ panel.mounted /\ {"stoppedEarly", "startedWhileStopping"} \cap oddly = {} => ButtonOK
    BY <1>0 DEF CalmOK
  <2>2. InFlight = {} \/ ~anew
    BY DEF StreamOverlaps
  <2>3. PodOK(StreamNow, activeStream, panel.mounted, hearing, 0)'
    BY <1>1, <1>2, <1>3, <1>5, <2>1, <2>2
  <2>4. \A e \in ContainerSet : linesShown'[e] <= 1
    BY <1>2, NoLines
  <2>5. ASSUME panel.mounted, {"stoppedEarly", "startedWhileStopping"} \cap oddly' = {}
        PROVE  ButtonOK'
    <3>1. ButtonOK
      BY <2>1, <2>5
    <3>2. CASE anew
      <4>1. ~Has(replies, StopOf(0))
        BY <2>5, <3>2 DEF StreamOverlaps, Has, StopOf
      <4>2. InFlight' = {k} /\ streamStarts'[k].phase = "asked"
        BY <1>3, <1>5, <1>6, <2>2, <3>2
      <4>3. streaming' = TRUE /\ ~Has(replies', StopOf(0))
        BY <1>2, <1>3, <1>5, <3>2, <4>1
      <4> QED BY <4>2, <4>3 DEF ButtonOK
    <3>3. CASE ~anew
      <4>1. /\ streaming' = streaming /\ activeStream' = activeStream /\ InFlight' = InFlight
            /\ streamStarts' = streamStarts /\ replies' = replies
        BY <1>0, <1>2, <1>3, <1>5, <1>6, <3>3
      <4> QED BY <3>1, <4>1, Zenon DEF ButtonOK
    <3> QED BY <3>2, <3>3
  <2> QED BY <2>3, <2>4, <2>5
<1>8. PlaceOK'
  <2> SUFFICES ASSUME {"containerWhileStarting", "containerReset"} \cap oddly' = {}
               PROVE  ContainerOK'
    BY DEF PlaceOK
  <2>1. ContainerOK /\ c = d /\ (InFlight = {} \/ c = panel.container)
    BY <1>0 DEF PlaceOK
  <2>2. \A j \in InFlight : streamStarts[j].on = d /\ j \in DOMAIN streamStarts
    BY <2>1 DEF ContainerOK, InFlight
  <2>3. \A j \in InFlight' : streamStarts'[j].on = d
    BY <1>3, <1>5, <1>6, <2>1, <2>2
  <2> QED BY <1>1, <1>2, <2>3, NoLines DEF ContainerOK
<1>9. TabOK'
  <2> SUFFICES ASSUME {"tabLeft", "eventsEmptied", "eventsFailed"} \cap oddly' = {}
               PROVE  PodEventsOK'
    BY DEF TabOK
  <2>1. panel'.tab # "lifecycle"
    BY <1>1
  <2>2. podEvents'.loaded = FALSE
    BY <1>0, <1>2 DEF PodRest
  <2> QED BY <2>1, <2>2 DEF PodEventsOK
<1> QED BY <1>5, <1>7, <1>8, <1>9 DEF PodInv

\* Another container is chosen.
LEMMA ContainerChosen ==
  ASSUME PodInv, NEW c \in ContainerSet, ChooseContainer(c) PROVE PodInv'
<1> DEFINE early == IF InFlight # {} THEN {"containerWhileStarting"} ELSE {}
           empty == IF panel.tab = "lifecycle" THEN {"eventsEmptied"} ELSE {}
           overlap == IF activeStream # NoStream THEN StreamOverlaps ELSE {}
<1>1. /\ PanelClick /\ panel' = [panel EXCEPT !.container = c]
      /\ ResetPanel /\ StreamBecomes(Anew(StreamNow, c)) /\ hearing' = hearing
      /\ oddly' = oddly \cup early \cup empty \cup overlap
  BY DEF ChooseContainer
<1>2. panelClicks' \in 0..MaxPanelClicks /\ polls' \in 0..MaxPolls
  BY <1>1, PodFacts, PanelClicked
<1>3. /\ oddly \subseteq oddly'
      /\ panel.tab = "lifecycle" => "eventsEmptied" \in oddly'
      /\ activeStream # NoStream => StreamOverlaps \subseteq oddly'
  BY <1>1
<1>4. {"containerWhileStarting", "containerReset"} \cap oddly' = {} =>
        InFlight = {} \/ c = panel.container
  BY <1>1
<1> QED BY <1>1, <1>2, <1>3, <1>4, PodResetKeeps

\* A poll brings a new version of the pod.
LEMMA PodPolled ==
  ASSUME PodInv, Polled PROVE PodInv'
<1> DEFINE reset == IF panel.container # ContainersOf[1] THEN {"containerReset"} ELSE {}
           empty == IF panel.tab = "lifecycle" THEN {"eventsEmptied"} ELSE {}
           overlap == IF activeStream # NoStream THEN StreamOverlaps ELSE {}
<1>1. /\ panel' = [panel EXCEPT !.container = ContainersOf[1]]
      /\ ResetPanel /\ StreamBecomes(Anew(StreamNow, panel.container)) /\ hearing' = hearing
      /\ oddly' = oddly \cup reset \cup empty \cup overlap
      /\ polls < MaxPolls /\ polls' = polls + 1 /\ panelClicks' = panelClicks
  BY DEF Polled
<1>2. panelClicks' \in 0..MaxPanelClicks /\ polls' \in 0..MaxPolls
  <2>1. panelClicks \in 0..MaxPanelClicks /\ polls \in 0..MaxPolls
    BY PodFacts DEF PodRest
  <2> QED BY <1>1, <2>1, PodAssumption
<1>3. ContainersOf[1] \in ContainerSet /\ panel.container \in ContainerSet
  <2>1. 1 \in DOMAIN ContainersOf
    BY PodAssumption
  <2> QED BY <2>1, PodFacts DEF ContainerSet
<1>4. /\ oddly \subseteq oddly'
      /\ panel.tab = "lifecycle" => "eventsEmptied" \in oddly'
      /\ activeStream # NoStream => StreamOverlaps \subseteq oddly'
  BY <1>1
<1>5. {"containerWhileStarting", "containerReset"} \cap oddly' = {} =>
        panel.container = ContainersOf[1]
  BY <1>1
<1> QED BY <1>1, <1>2, <1>3, <1>4, <1>5, PodResetKeeps

\* The panel is closed: the stream it knows is closed with it.
LEMMA PodClosed ==
  ASSUME PodInv, ClosePod PROVE PodInv'
<1> DEFINE z == OnClose(StreamNow)
<1>0. /\ CalmOK /\ PlaceOK /\ PodRest
      /\ StreamNow \in StreamRecords /\ CallOK(StreamNow, 0)
      /\ hearing \subseteq DOMAIN streamStarts
      /\ activeStream \in ContainerSet \cup {NoStream}
      /\ StreamNow.wires = wires /\ StreamNow.queue = replies /\ StreamNow.starts = streamStarts
  BY PodFacts
<1>1. /\ StreamBecomes(z) /\ activeStream' = NoStream /\ linesShown' = NoneShown
      /\ panel' = [panel EXCEPT !.mounted = FALSE]
      /\ podEvents' = [podEvents EXCEPT !.live = FALSE]
      /\ UNCHANGED <<streaming, hearing, oddly, panelClicks, polls>>
  BY DEF ClosePod
<1>2. /\ panel' \in [mounted: BOOLEAN, container: ContainerSet, tab: Tabs]
      /\ panel'.mounted = FALSE /\ panel'.container = panel.container
  BY <1>0, <1>1 DEF PodRest
<1>3. /\ z \in StreamRecords /\ CallOK(z, 0) /\ z.starts = streamStarts
      /\ PodOK(StreamNow, activeStream, panel.mounted, hearing, 0) =>
           PodOK(z, NoStream, FALSE, hearing, 0)
  <2>1. CASE activeStream = NoStream
    <3>1. z = StreamNow
      BY <2>1 DEF OnClose
    <3>2. ASSUME PodOK(StreamNow, activeStream, panel.mounted, hearing, 0),
                 NEW c \in ContainerSet
          PROVE  wires[c] = 0 \/ StartAsked(StreamNow, wires[c])
      <4>1. c # activeStream /\ WireOK(StreamNow, activeStream, panel.mounted, hearing, 0, c)
        BY <2>1, <3>2, PodAssumption DEF PodOK
      <4> QED BY <1>0, <4>1 DEF WireOK
    <3>3. PodOK(StreamNow, activeStream, panel.mounted, hearing, 0) =>
            PodOK(StreamNow, NoStream, FALSE, hearing, 0)
      BY <1>0, <3>2, NoneKnown
    <3> QED BY <1>0, <3>1, <3>3
  <2>2. CASE activeStream \in ContainerSet
    <3>1. z = CloseWire(StreamNow, activeStream)
      BY <2>2, PodAssumption DEF OnClose
    <3>2. CallOK(z, 0) /\ z \in StreamRecords /\ z.starts = streamStarts
      BY <1>0, <2>2, <3>1, PodClosedKeeps
    <3>3. ASSUME PodOK(StreamNow, activeStream, panel.mounted, hearing, 0)
          PROVE  PodOK(CloseWire(StreamNow, activeStream), NoStream, FALSE, hearing, 0)
      BY <1>0, <2>2, <3>3, KnownClosed
    <3> QED BY <3>1, <3>2, <3>3
  <2> QED BY <1>0, <2>1, <2>2
<1> HIDE DEF z
<1>4. PodRest'
  <2>1. podEvents' \in [loaded: BOOLEAN, loading: BOOLEAN, shown: BOOLEAN, live: BOOLEAN]
    BY <1>0, <1>1 DEF PodRest
  <2> QED BY <1>0, <1>1, <1>2, <2>1, NoLines DEF PodRest
<1>5. PodBase' /\ StreamNow' = z /\ streamStarts' = streamStarts
  <2>1. hearing' \subseteq DOMAIN z.starts
    BY <1>0, <1>1, <1>3
  <2> QED BY <1>1, <1>3, <1>4, <2>1, StreamBecame
<1>6. CalmOK'
  <2> SUFFICES ASSUME "startedTwice" \notin oddly
               PROVE  /\ PodOK(StreamNow, activeStream, panel.mounted, hearing, 0)'
                      /\ \A c \in ContainerSet : linesShown'[c] <= 1
    BY <1>1, <1>2 DEF CalmOK
  <2>1. PodOK(StreamNow, activeStream, panel.mounted, hearing, 0)
    BY <1>0 DEF CalmOK
  <2> QED BY <1>1, <1>2, <1>3, <1>5, <2>1, NoLines
<1>7. PlaceOK'
  <2>1. InFlight' = InFlight
    BY <1>5 DEF InFlight
  <2> QED BY <1>0, <1>1, <1>2, <1>5, <2>1, NoLines DEF PlaceOK, ContainerOK
<1>8. TabOK'
  BY <1>2 DEF TabOK, PodEventsOK
<1> QED BY <1>5, <1>6, <1>7, <1>8 DEF PodInv

\* The marks that say something of the stream.
StreamMarks ==
  {"containerReset", "containerWhileStarting", "startedTwice", "startedWhileStopping",
   "stoppedEarly"}

\* A step that leaves the stream alone.
LEMMA StreamKept ==
  ASSUME PodInv, UNCHANGED streamVars, panel'.mounted = panel.mounted,
         panel'.container = panel.container, PodRest',
         \A m \in StreamMarks : m \in oddly' <=> m \in oddly
  PROVE  PodBase' /\ CalmOK' /\ PlaceOK'
<1>0. PodBase /\ CalmOK /\ PlaceOK
  BY PodFacts
<1>1. UNCHANGED <<activeStream, streaming, streamStarts, wires, hearing, replies, linesShown>>
  BY DEF streamVars
<1>2. StreamNow' = StreamNow /\ InFlight' = InFlight /\ ButtonOK' = ButtonOK
  BY <1>1 DEF StreamNow, InFlight, ButtonOK
<1>3. PodBase'
  BY <1>0, <1>1, <1>2 DEF PodBase
<1>4. /\ "startedTwice" \in oddly' <=> "startedTwice" \in oddly
      /\ {"stoppedEarly", "startedWhileStopping"} \cap oddly' =
           {"stoppedEarly", "startedWhileStopping"} \cap oddly
      /\ {"containerWhileStarting", "containerReset"} \cap oddly' =
           {"containerWhileStarting", "containerReset"} \cap oddly
  BY DEF StreamMarks
<1>5. CalmOK'
  BY <1>0, <1>1, <1>2, <1>4 DEF CalmOK
<1>6. PlaceOK'
  BY <1>0, <1>1, <1>2, <1>4 DEF PlaceOK, ContainerOK
<1> QED BY <1>3, <1>5, <1>6

\* A tab is opened.
LEMMA TabOpened ==
  ASSUME PodInv, NEW t \in Tabs, OpenTab(t) PROVE PodInv'
<1> DEFINE loads == t = "lifecycle" /\ ~podEvents.loaded
<1>0. /\ TabOK /\ PodRest
      /\ panel \in [mounted: BOOLEAN, container: ContainerSet, tab: Tabs]
      /\ podEvents \in [loaded: BOOLEAN, loading: BOOLEAN, shown: BOOLEAN, live: BOOLEAN]
  BY PodFacts DEF PodRest
<1>1. /\ PanelClick /\ t # panel.tab /\ panel' = [panel EXCEPT !.tab = t]
      /\ loads => podEvents' =
           [podEvents EXCEPT !.loaded = TRUE, !.loading = TRUE, !.live = TRUE]
      /\ ~loads => podEvents' = [podEvents EXCEPT !.live = FALSE]
      /\ oddly' = (IF loads THEN oddly \ {"eventsEmptied", "eventsFailed"} ELSE oddly)
                  \cup (IF podEvents.live THEN {"tabLeft"} ELSE {})
      /\ UNCHANGED streamVars
  BY DEF OpenTab
<1>2. /\ panel' \in [mounted: BOOLEAN, container: ContainerSet, tab: Tabs]
      /\ panel'.mounted = panel.mounted /\ panel'.container = panel.container /\ panel'.tab = t
  BY <1>0, <1>1
<1>3. /\ podEvents' \in [loaded: BOOLEAN, loading: BOOLEAN, shown: BOOLEAN, live: BOOLEAN]
      /\ loads => podEvents'.live = TRUE
      /\ ~loads => /\ podEvents'.loaded = podEvents.loaded /\ podEvents'.shown = podEvents.shown
                   /\ podEvents'.loading = podEvents.loading
  <2>1. CASE loads
    BY <1>0, <1>1, <2>1
  <2>2. CASE ~loads
    BY <1>0, <1>1, <2>2
  <2> QED BY <2>1, <2>2
<1>4. PodRest'
  <2>1. panelClicks' \in 0..MaxPanelClicks /\ polls' \in 0..MaxPolls
    BY <1>0, <1>1, PanelClicked
  <2> QED BY <1>0, <1>1, <1>2, <1>3, <2>1 DEF PodRest, streamVars
<1>5. \A m \in StreamMarks : m \in oddly' <=> m \in oddly
  BY <1>1 DEF StreamMarks
<1>6. TabOK'
  <2> SUFFICES ASSUME {"tabLeft", "eventsEmptied", "eventsFailed"} \cap oddly' = {}, ~loads
               PROVE  PodEventsOK'
    BY <1>3 DEF TabOK, PodEventsOK
  <2>1. ~podEvents.live /\ {"tabLeft", "eventsEmptied", "eventsFailed"} \cap oddly = {}
    BY <1>1
  <2>2. /\ panel.mounted /\ (panel.tab = "lifecycle" \/ podEvents.loaded) =>
             podEvents.shown /\ ~podEvents.loading
    BY <1>0, <2>1 DEF TabOK, PodEventsOK
  <2>3. t = "lifecycle" => podEvents.loaded
    OBVIOUS
  <2>4. podEvents.loaded => podEvents.shown /\ ~podEvents.loading
    BY <1>1, <2>2 DEF PanelClick
  <2> QED BY <1>2, <1>3, <2>3, <2>4, Zenon DEF PodEventsOK
<1> QED BY <1>1, <1>2, <1>4, <1>5, <1>6, StreamKept DEF PodInv

\* The events of the pod come, or fail to.
LEMMA EventsHeard ==
  ASSUME PodInv, NEW ok \in BOOLEAN, EventsArrive(ok) PROVE PodInv'
<1>0. /\ TabOK /\ PodRest
      /\ podEvents \in [loaded: BOOLEAN, loading: BOOLEAN, shown: BOOLEAN, live: BOOLEAN]
  BY PodFacts DEF PodRest
<1>1. /\ podEvents' = EventsAnswered(ok)
      /\ oddly' = (oddly \ {"eventsEmptied"}) \cup (IF ok THEN {} ELSE {"eventsFailed"})
      /\ UNCHANGED <<panel, streamVars, panelClicks, polls>>
  BY DEF EventsArrive
<1>2. /\ podEvents' \in [loaded: BOOLEAN, loading: BOOLEAN, shown: BOOLEAN, live: BOOLEAN]
      /\ podEvents'.shown = ok /\ podEvents'.loading = FALSE
  <2>1. podEvents' = [podEvents EXCEPT !.live = FALSE, !.loading = FALSE, !.shown = ok,
                                       !.loaded = ok /\ podEvents.loaded]
    BY <1>1 DEF EventsAnswered
  <2>2. (ok /\ podEvents.loaded) \in BOOLEAN
    OBVIOUS
  <2> QED BY <1>0, <2>1, <2>2
<1>3. PodRest'
  BY <1>0, <1>1, <1>2 DEF PodRest, streamVars
<1>4. \A m \in StreamMarks : m \in oddly' <=> m \in oddly
  BY <1>1 DEF StreamMarks
<1>5. TabOK'
  <2> SUFFICES ASSUME {"tabLeft", "eventsEmptied", "eventsFailed"} \cap oddly' = {}
               PROVE  PodEventsOK'
    BY DEF TabOK
  <2>1. ok
    BY <1>1
  <2> QED BY <1>2, <2>1, Zenon DEF PodEventsOK
<1> QED BY <1>1, <1>3, <1>4, <1>5, StreamKept DEF PodInv

\* A step that changes nothing.
LEMMA PodIdle == ASSUME PodInv, UNCHANGED panelVars PROVE PodInv'
<1>1. UNCHANGED <<panel, streamVars, podEvents, oddly, panelClicks, polls>>
  BY DEF panelVars
<1>2. PodRest'
  BY <1>1, PodFacts DEF PodRest, streamVars
<1>3. TabOK'
  BY <1>1, PodFacts, TabKept
<1> QED BY <1>1, <1>2, <1>3, StreamKept DEF PodInv

\* Every step keeps the inductive invariant.
LEMMA PodSteps == ASSUME PodInv, [PanelNext]_panelVars PROVE PodInv'
<1>1. CASE ClickStream
  BY <1>1, StreamClicked
<1>2. CASE ClickStop
  BY <1>2, StopPressed
<1>3. CASE Polled
  BY <1>3, PodPolled
<1>4. CASE ClosePod
  BY <1>4, PodClosed
<1>5. ASSUME NEW k \in 0..Len(streamStarts), StreamStopped(k) PROVE PodInv'
  <2>1. k \in Nat
    BY PodFacts, StreamParts
  <2> QED BY <1>5, <2>1, StopReturns
<1>6. ASSUME NEW k \in DOMAIN streamStarts, Replied(k) PROVE PodInv'
  BY <1>6, ReplyReturns
<1>7. ASSUME NEW c \in ContainerSet, StreamEnded(c) \/ SocketEnds(c) \/ LinesCome(c)
                                     \/ ChooseContainer(c)
      PROVE  PodInv'
  BY <1>7, EndReturns, WireEnds, LinesArrive, ContainerChosen
<1>8. ASSUME NEW t \in Tabs, OpenTab(t) PROVE PodInv'
  BY <1>8, TabOpened
<1>9. ASSUME NEW ok \in BOOLEAN, EventsArrive(ok) PROVE PodInv'
  BY <1>9, EventsHeard
<1>10. CASE UNCHANGED panelVars
  BY <1>10, PodIdle
<1> QED BY <1>1, <1>2, <1>3, <1>4, <1>5, <1>6, <1>7, <1>8, <1>9, <1>10 DEF PanelNext

\* The panel of a pod shows lines of the container selected, each once, knows the stream
\* that runs, says whether there is one, and shows the pod's events: but for the slips
\* its marks name (PodDetail.tsx).
THEOREM PodHolds == PanelSpec => []PodPanelTrue
<1>1. PanelInit => PodInv
  BY PodInitially
<1>2. PodInv /\ [PanelNext]_panelVars => PodInv'
  BY PodSteps
<1>3. PodInv => PodPanelTrue
  BY PodImplies
<1> QED BY <1>1, <1>2, <1>3, PTL DEF PanelSpec

=============================================================================
