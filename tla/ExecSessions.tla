----------------------------- MODULE ExecSessions -----------------------------
(***************************************************************************)
(* Shells in containers: a terminal tab of the renderer (ExecTab, the exec *)
(* part of operationSlice), the main process's sockets (ipc/terminal.ts)   *)
(* and the sidecar, which opens a shell on the cluster it serves when the  *)
(* connection comes, whatever the tab was opened for.                      *)
(*                                                                         *)
(* The tab's effect starts a shell when it mounts and again when the       *)
(* selected context changes; each run of the effect starts one, which is   *)
(* named after it.  The debug pod launcher, a part of its own, comes last.  *)
(***************************************************************************)
EXTENDS Naturals, Sequences, FiniteSets, SequencesExt

CONSTANTS Shells,         \* runs of the effect
          ExecContexts, FirstExecContext,
          MaxExecSwitches,
          NoShell

ASSUME ExecAssumption ==
  /\ FirstExecContext \in ExecContexts /\ NoShell \notin Shells /\ MaxExecSwitches \in Nat

VARIABLES
  selected,   \* selectedContext
  serves,     \* the cluster the sidecar serves
  execSwitch, \* selectContext: "none", "cancelling" (awaits cancelAllStreams), "sent"
  execSwitches,
  tab,        \* the session in the store: "none", "open"
  ptyId,      \* the session's ptyId
  mounted,    \* the run of the effect that is in force, or NoShell
  own,        \* the runs of the mounted tab, which share its ref
  runFor,     \* the context each run was made for
  execCancelled, \* runs that were cleaned up
  ptyRef,     \* ptyIdRef
  attached,   \* runs whose data and exit listeners are registered
  banner,     \* runs whose tab says that the shell failed or has ended
  wire,       \* the sockets: "none", "connecting", "open", "closed"
  sockets,      \* activeStreams
  runsOn,    \* the cluster a shell runs on
  mail,       \* to the renderer: <<"id", run>>, <<"failed", run>>, <<"exit", run>>
  overwritten, \* history: shells whose id the ref lost to that of a cancelled run
  midway      \* history: shells asked for, or connected, while a switch was under way

execVars == <<selected, serves, execSwitch, execSwitches, tab, ptyId, mounted, own, runFor,
              execCancelled, ptyRef, attached, banner, wire, sockets, runsOn, mail, overwritten,
              midway>>
switchPart == <<selected, serves, execSwitch, execSwitches>>
tabPart    == <<tab, ptyId, mounted, own, runFor, execCancelled, ptyRef, attached, banner>>
socketPart == <<wire, sockets, runsOn>>

ExecTypeOK ==
  /\ selected \in ExecContexts /\ serves \in ExecContexts
  /\ execSwitch \in {"none", "cancelling", "sent"} /\ execSwitches \in 0..MaxExecSwitches
  /\ tab \in {"none", "open"}
  /\ {ptyId, mounted, ptyRef} \subseteq Shells \cup {NoShell}
  /\ runFor \in [Shells -> ExecContexts] /\ runsOn \in [Shells -> ExecContexts]
  /\ own \subseteq Shells /\ execCancelled \subseteq Shells
  /\ attached \subseteq Shells /\ banner \subseteq Shells
  /\ wire \in [Shells -> {"none", "connecting", "open", "closed"}]
  /\ sockets \subseteq Shells /\ overwritten \subseteq Shells /\ midway \subseteq Shells
  /\ mail \in Seq({"id", "failed", "exit"} \X Shells)

ExecInit ==
  /\ selected = FirstExecContext /\ serves = FirstExecContext
  /\ execSwitch = "none" /\ execSwitches = 0
  /\ tab = "none" /\ ptyId = NoShell /\ mounted = NoShell /\ ptyRef = NoShell
  /\ runFor = [r \in Shells |-> FirstExecContext]
  /\ own = {} /\ execCancelled = {} /\ attached = {} /\ banner = {}
  /\ wire = [r \in Shells |-> "none"]
  /\ sockets = {} /\ mail = <<>> /\ overwritten = {} /\ midway = {}
  /\ runsOn = [r \in Shells |-> FirstExecContext]

--------------------------------------------------------------------------
(* The main process                                                        *)

\* exec:kill, of ids that may be unknown by now: listeners off, socket closed.
Kill(ids) ==
  /\ sockets' = sockets \ ids
  /\ wire' = [r \in Shells |-> IF r \in ids \cap sockets THEN "closed" ELSE wire[r]]

\* The handshake succeeds: HandleExec takes the cluster that is served.
Connect(r) ==
  /\ wire[r] = "connecting"
  /\ wire' = [wire EXCEPT ![r] = "open"]
  /\ runsOn' = [runsOn EXCEPT ![r] = serves]
  /\ mail' = Append(mail, <<"id", r>>)
  /\ midway' = IF execSwitch # "none" THEN midway \cup {r} ELSE midway
  /\ UNCHANGED <<switchPart, tabPart, sockets, overwritten>>

\* The handshake fails: start rejects, and the close is reported too.
ConnectFails(r) ==
  /\ wire[r] = "connecting"
  /\ wire' = [wire EXCEPT ![r] = "closed"]
  /\ sockets' = sockets \ {r}
  /\ mail' = mail \o <<<<"failed", r>>, <<"exit", r>>>>
  /\ UNCHANGED <<switchPart, tabPart, runsOn, overwritten, midway>>

\* The shell exits, or the connection breaks.
ShellEnds(r) ==
  /\ wire[r] = "open"
  /\ wire' = [wire EXCEPT ![r] = "closed"]
  /\ sockets' = sockets \ {r}
  /\ mail' = Append(mail, <<"exit", r>>)
  /\ UNCHANGED <<switchPart, tabPart, runsOn, overwritten, midway>>

--------------------------------------------------------------------------
(* The tab                                                                 *)

OpenExec ==
  /\ tab = "none" /\ mounted = NoShell
  /\ \E r \in Shells : wire[r] = "none"
  /\ tab' = "open" /\ ptyId' = NoShell
  /\ UNCHANGED <<switchPart, mounted, own, runFor, execCancelled, ptyRef, attached, banner,
                 socketPart, mail, overwritten, midway>>

\* Slip: the clean-up does not kill the shell.
SlipCleanUp == UNCHANGED <<sockets, wire>>

\* What the clean-up of the run in force kills.
CleanUp == Kill({ptyRef})

\* The effect runs: for a tab just opened, or because the context has changed,
\* after the clean-up of the run before.  exec.start opens a socket.
StartShell(r) ==
  /\ tab = "open" /\ wire[r] = "none"
  /\ mounted # NoShell => runFor[mounted] # selected
  /\ mounted' = r /\ own' = own \cup {r} /\ ptyRef' = NoShell
  /\ runFor' = [runFor EXCEPT ![r] = selected]
  /\ execCancelled' = execCancelled \cup ({mounted} \ {NoShell})
  /\ attached' = attached \ {mounted}
  /\ sockets' = (sockets \ {ptyRef}) \cup {r}
  /\ wire' = [s \in Shells |-> CASE s = r -> "connecting"
                                 [] s = ptyRef /\ s \in sockets -> "closed"
                                 [] OTHER -> wire[s]]
  /\ midway' = IF execSwitch # "none" THEN midway \cup {r} ELSE midway
  /\ UNCHANGED <<switchPart, tab, ptyId, banner, runsOn, mail, overwritten>>

\* The tab's component is taken away after its session left the store.
Unmount ==
  /\ tab = "none" /\ mounted # NoShell
  /\ CleanUp
  /\ execCancelled' = execCancelled \cup {mounted}
  /\ attached' = attached \ {mounted}
  /\ mounted' = NoShell /\ own' = {} /\ ptyRef' = NoShell
  /\ UNCHANGED <<switchPart, tab, ptyId, runFor, banner, runsOn, mail, overwritten, midway>>

\* Slip: the id is taken as the tab's own.
SlipHearId(r) ==
  /\ mail # <<>> /\ Head(mail) = <<"id", r>>
  /\ mail' = Tail(mail)
  /\ ptyRef' = IF r \in own THEN r ELSE ptyRef
  /\ attached' = attached \cup {r}
  /\ ptyId' = IF tab = "open" THEN r ELSE ptyId
  /\ UNCHANGED <<switchPart, tab, mounted, own, runFor, execCancelled, banner, socketPart,
                 overwritten, midway>>

\* start has resolved.  The ref is set before the test whether the run is still
\* in force.
HearId(r) ==
  /\ mail # <<>> /\ Head(mail) = <<"id", r>>
  /\ mail' = Tail(mail)
  /\ ptyRef' = IF r \in own THEN r ELSE ptyRef
  /\ overwritten' = IF r \in execCancelled \cap own THEN overwritten \cup ({ptyRef} \ {NoShell})
                    ELSE overwritten
  /\ IF r \in execCancelled
     THEN Kill({r}) /\ UNCHANGED <<attached, ptyId>>
     ELSE /\ attached' = attached \cup {r}
          /\ ptyId' = IF tab = "open" THEN r ELSE ptyId
          /\ UNCHANGED <<sockets, wire>>
  /\ UNCHANGED <<switchPart, tab, mounted, own, runFor, execCancelled, banner, runsOn, midway>>

HearFailure(r) ==
  /\ mail # <<>> /\ Head(mail) = <<"failed", r>>
  /\ mail' = Tail(mail)
  /\ banner' = banner \cup {r}
  /\ UNCHANGED <<switchPart, tab, ptyId, mounted, own, runFor, execCancelled, ptyRef, attached,
                 socketPart, overwritten, midway>>

HearExit(r) ==
  /\ mail # <<>> /\ Head(mail) = <<"exit", r>>
  /\ mail' = Tail(mail)
  /\ banner' = IF r \in attached THEN banner \cup {r} ELSE banner
  /\ UNCHANGED <<switchPart, tab, ptyId, mounted, own, runFor, execCancelled, ptyRef, attached,
                 socketPart, overwritten, midway>>

\* closeExecTab, closeExec.
CloseTab ==
  /\ tab = "open"
  /\ Kill({ptyId})
  /\ tab' = "none" /\ ptyId' = NoShell
  /\ UNCHANGED <<switchPart, mounted, own, runFor, execCancelled, ptyRef, attached, banner, runsOn,
                 mail, overwritten, midway>>

--------------------------------------------------------------------------
(* selectContext                                                           *)

\* The context is set, and every socket is closed; a tab whose shell was still
\* connecting hears nothing of it.
SelectContext ==
  /\ execSwitch = "none" /\ execSwitches < MaxExecSwitches
  /\ execSwitch' = "cancelling" /\ execSwitches' = execSwitches + 1
  /\ selected' \in ExecContexts \ {selected}
  /\ Kill(sockets)
  /\ mail' = mail \o SetToSeq({<<"exit", r>> : r \in sockets})
  /\ UNCHANGED <<serves, tabPart, runsOn, overwritten, midway>>

CloseSessions ==
  /\ execSwitch = "cancelling"
  /\ execSwitch' = "sent"
  /\ tab' = "none" /\ ptyId' = NoShell
  /\ Kill({ptyId})
  /\ UNCHANGED <<selected, serves, execSwitches, mounted, own, runFor, execCancelled,
                 ptyRef, attached, banner, runsOn, mail, overwritten, midway>>

SwitchServed ==
  /\ execSwitch = "sent"
  /\ execSwitch' = "none"
  /\ serves' = selected
  /\ midway' = midway \cup {r \in Shells : wire[r] = "connecting"}
  /\ UNCHANGED <<selected, execSwitches, tabPart, socketPart, mail, overwritten>>

\* Slip: the context is kept.
SlipRefused ==
  /\ execSwitch = "sent"
  /\ execSwitch' = "none"
  /\ UNCHANGED <<selected, serves, execSwitches, tabPart, socketPart, mail, overwritten, midway>>

\* The sidecar refuses: the renderer takes the context back.
Refused ==
  /\ execSwitch = "sent"
  /\ execSwitch' = "none"
  /\ selected' = serves
  /\ UNCHANGED <<serves, execSwitches, tabPart, socketPart, mail, overwritten, midway>>

ExecNext ==
  \/ \E r \in Shells : \/ StartShell(r) \/ Connect(r) \/ ConnectFails(r) \/ ShellEnds(r)
                       \/ HearId(r) \/ HearFailure(r) \/ HearExit(r)
  \/ OpenExec \/ Unmount \/ CloseTab
  \/ SelectContext \/ CloseSessions \/ SwitchServed \/ Refused

ExecSpec == ExecInit /\ [][ExecNext]_execVars

--------------------------------------------------------------------------
(* Properties                                                              *)

\* No shell outlives its tab: at rest an open one is attached to the tab, unless
\* the tab lost its id to that of a cancelled run.
ShellsHaveTabs ==
  mail = <<>> /\ (tab = "none" => mounted = NoShell) =>
     \A r \in Shells \ overwritten : wire[r] = "open" => r = mounted /\ r \in attached

\* A terminal that accepts input runs on the cluster it is labelled with, unless
\* it was asked for, or connected, while a switch was under way.
ShellsOnTheirCluster ==
  \A r \in attached : wire[r] = "open" => runsOn[r] = runFor[r] \/ r \in midway

\* What the terminals say of the shells behind them.
ShellsTrue == ExecTypeOK /\ ShellsHaveTabs /\ ShellsOnTheirCluster

--------------------------------------------------------------------------
(* The debug pod launcher (DebugPodLauncher.tsx), apart from the tab above: *)
(* a pod is created, polled until it runs, and a shell is opened in it.    *)
(* A launch has a random name, which its pod and its entry bear.  The      *)
(* launcher stays in reach while a switch is under way; requests go to the *)
(* cluster the sidecar serves.                                             *)

CONSTANTS Launches, NoLaunch,
          MaxBenchTurns   \* bound: switches of context and visits of the launcher

ASSUME LaunchAssumption == NoLaunch \notin Launches /\ MaxBenchTurns \in Nat

VARIABLES
  bench,     \* [ctx, serves, turns]: selectedContext, the sidecar's cluster, and a count
  debugPods, \* the entries
  launching, \* the launch that has disabled the button of the mounted launcher
  launchOf,  \* launch -> how far launch() is, and for which context it runs
  debugPod,  \* launch -> its pod, and the cluster that has it
  deletions, \* launch -> what has become of the request to delete its pod
  left,      \* history: launches whose context was left since
  takenBack, \* history: launches whose context was taken back by a switch that failed
  unlisted   \* history: launches that opened a shell while not in the list

benchVars == <<bench, debugPods, launching, launchOf, debugPod, deletions, left, takenBack,
               unlisted>>
benchPast == <<left, takenBack, unlisted>>

LaunchTypeOK ==
  /\ bench \in [ctx: ExecContexts, serves: ExecContexts, turns: 0..MaxBenchTurns]
  /\ debugPods \in [Launches -> {"none", "creating", "running", "error"}]
  /\ launching \in Launches \cup {NoLaunch}
  /\ launchOf \in [Launches ->
       [at: {"idle", "creating", "waiting", "polling", "up", "failed", "over"}, ctx: ExecContexts]]
  /\ debugPod \in [Launches -> [is: {"none", "pending", "running", "gone"}, on: ExecContexts]]
  /\ deletions \in [Launches -> {"none", "sent", "done", "refused", "missed"}]
  /\ left \cup takenBack \cup unlisted \subseteq Launches

LaunchInit ==
  /\ bench = [ctx |-> FirstExecContext, serves |-> FirstExecContext, turns |-> 0]
  /\ debugPods = [l \in Launches |-> "none"] /\ launching = NoLaunch
  /\ launchOf = [l \in Launches |-> [at |-> "idle", ctx |-> FirstExecContext]]
  /\ debugPod = [l \in Launches |-> [is |-> "none", on |-> FirstExecContext]]
  /\ deletions = [l \in Launches |-> "none"]
  /\ left = {} /\ takenBack = {} /\ unlisted = {}

Goes(l, step) == launchOf' = [launchOf EXCEPT ![l].at = step]
Entry(l, status) ==
  debugPods' = [debugPods EXCEPT ![l] = IF @ = "none" THEN @ ELSE status]
LaunchRuns(l) == launchOf[l].at \notin {"idle", "over"}
InCluster(l) == debugPod[l].is \in {"pending", "running"}

\* The button is disabled until the launch of this launcher is over: none is ever
\* superseded by a newer one, as launch() allows for.
LaunchEnabled == launching = NoLaunch

LaunchPod(l) ==
  /\ LaunchEnabled /\ launchOf[l].at = "idle"
  /\ launching' = l
  /\ launchOf' = [launchOf EXCEPT ![l] = [at |-> "creating", ctx |-> bench.ctx]]
  /\ debugPods' = [debugPods EXCEPT ![l] = "creating"]
  /\ UNCHANGED <<bench, debugPod, deletions, benchPast>>

\* HandleCreateDebugPod creates it in the cluster that is served, or an error comes back.
PodCreated(l) ==
  /\ launchOf[l].at = "creating"
  /\ \/ /\ Goes(l, "waiting")
        /\ debugPod' = [debugPod EXCEPT ![l] = [is |-> "pending", on |-> bench.serves]]
     \/ Goes(l, "failed") /\ UNCHANGED debugPod
  /\ UNCHANGED <<bench, debugPods, launching, deletions, benchPast>>

\* finally: the button is given back.
LaunchOver(l) ==
  /\ Goes(l, "over")
  /\ launching' = IF launching = l THEN NoLaunch ELSE launching

\* The context is still the one of the launch.
Stays(l) == bench.ctx = launchOf[l].ctx

\* The back-off has passed: the pods are asked for, unless the context was left.
PollPods(l) ==
  /\ launchOf[l].at = "waiting"
  /\ IF Stays(l) THEN Goes(l, "polling") /\ UNCHANGED launching ELSE LaunchOver(l)
  /\ UNCHANGED <<bench, debugPods, debugPod, deletions, benchPast>>

\* The pods of the cluster that is served: ours runs there, or does not, which is
\* asked for again forty times, or they could not be read.
PodsRead(l) ==
  /\ launchOf[l].at = "polling"
  /\ \/ debugPod[l].is = "running" /\ debugPod[l].on = bench.serves /\ Goes(l, "up")
     \/ ~(debugPod[l].is = "running" /\ debugPod[l].on = bench.serves) /\ Goes(l, "waiting")
     \/ Goes(l, "failed")
  /\ UNCHANGED <<bench, debugPods, launching, debugPod, deletions, benchPast>>

\* The pod runs: a shell is opened in it.
LaunchUp(l) ==
  /\ launchOf[l].at = "up" /\ LaunchOver(l)
  /\ IF Stays(l) THEN /\ Entry(l, "running")
          /\ unlisted' = IF debugPods[l] = "none" THEN unlisted \cup {l} ELSE unlisted
     ELSE UNCHANGED <<debugPods, unlisted>>
  /\ UNCHANGED <<bench, debugPod, deletions, left, takenBack>>

LaunchFails(l) ==
  /\ launchOf[l].at = "failed" /\ LaunchOver(l)
  /\ IF Stays(l) THEN Entry(l, "error") ELSE UNCHANGED debugPods
  /\ UNCHANGED <<bench, debugPod, deletions, benchPast>>

\* Slip: an entry can be deleted while its pod is being created.
SlipDeletable(l) == debugPods[l] # "none"
Deletable(l) == debugPods[l] \in {"running", "error"}

\* stop() and stopAll(): the entries go at once, the pods when the requests arrive.
StopPods(L) ==
  /\ L # {} /\ \A l \in L : Deletable(l)
  /\ Cardinality(L) = 1 \/ L = {l \in Launches : debugPods[l] \in {"running", "error"}}
  /\ debugPods' = [l \in Launches |-> IF l \in L THEN "none" ELSE debugPods[l]]
  /\ deletions' = [l \in Launches |-> IF l \in L THEN "sent" ELSE deletions[l]]
  /\ UNCHANGED <<bench, launching, launchOf, debugPod, benchPast>>

\* The cluster that is served deletes it; does not find it, of which nothing is said;
\* or refuses, which is.
PodDeleted(l) ==
  LET there == InCluster(l) /\ debugPod[l].on = bench.serves
      becomes(how) == deletions' = [deletions EXCEPT ![l] = how]
  IN  /\ deletions[l] = "sent"
      /\ \/ there /\ becomes("done") /\ debugPod' = [debugPod EXCEPT ![l].is = "gone"]
         \/ ~there /\ becomes("missed") /\ UNCHANGED debugPod
         \/ becomes("refused") /\ UNCHANGED debugPod
      /\ UNCHANGED <<bench, debugPods, launching, launchOf, benchPast>>

\* The pod starts, or is taken away by others.
PodTurns(l) ==
  /\ InCluster(l)
  /\ debugPod' = [debugPod EXCEPT ![l].is = IF @ = "pending" THEN "running" ELSE "gone"]
  /\ UNCHANGED <<bench, debugPods, launching, launchOf, deletions, benchPast>>

BenchTurn == bench.turns < MaxBenchTurns

\* The launcher is left and opened again: the new one knows of no launch.
VisitLauncher ==
  /\ BenchTurn /\ launching # NoLaunch
  /\ bench' = [bench EXCEPT !.turns = @ + 1] /\ launching' = NoLaunch
  /\ UNCHANGED <<debugPods, launchOf, debugPod, deletions, benchPast>>

\* Slip: the list outlives its context.
SlipListAfter == debugPods
ListAfter == [l \in Launches |-> "none"]

\* selectContext empties the list and closes the shells, and asks the sidecar.
LeaveBench(c) ==
  /\ BenchTurn /\ bench.ctx = bench.serves /\ c # bench.ctx
  /\ bench' = [bench EXCEPT !.ctx = c, !.turns = @ + 1]
  /\ debugPods' = ListAfter
  /\ left' = left \cup {l \in Launches : launchOf[l].at # "idle"}
  /\ UNCHANGED <<launching, launchOf, debugPod, deletions, takenBack, unlisted>>

\* The sidecar has switched; or it has not, and the context is taken back, but not
\* the list.
BenchServed ==
  /\ bench.ctx # bench.serves
  /\ \/ bench' = [bench EXCEPT !.serves = bench.ctx] /\ UNCHANGED takenBack
     \/ /\ bench' = [bench EXCEPT !.ctx = bench.serves]
        /\ takenBack' = takenBack \cup {l \in Launches : debugPods[l] # "none"}
  /\ UNCHANGED <<debugPods, launching, launchOf, debugPod, deletions, left, unlisted>>

LaunchNext ==
  \/ \E l \in Launches : \/ LaunchPod(l) \/ PodCreated(l) \/ PollPods(l) \/ PodsRead(l)
                         \/ LaunchUp(l) \/ LaunchFails(l) \/ PodDeleted(l) \/ PodTurns(l)
  \/ \E L \in SUBSET Launches : StopPods(L)
  \/ VisitLauncher \/ BenchServed \/ \E c \in ExecContexts : LeaveBench(c)

LaunchSpec == LaunchInit /\ [][LaunchNext]_benchVars

\* No way a launch can end leaves its button disabled, or its entry at "creating",
\* where it cannot be deleted: unless its context was taken back.
LaunchesSettle ==
  /\ launching # NoLaunch => LaunchRuns(launching)
  /\ \A l \in Launches : debugPods[l] = "creating" => LaunchRuns(l) \/ l \in takenBack

\* A pod that lives is in the list, from which it can be deleted, for as long as its
\* context is not left: unless its deletion is on its way or was refused with a
\* message, or another cluster than that of its context was asked to create it.
PodsListed ==
  \A l \in Launches :
    InCluster(l) /\ debugPods[l] = "none" =>
       \/ deletions[l] \in {"sent", "refused"}
       \/ l \in left
       \/ debugPod[l].on # launchOf[l].ctx

\* The list is of the selected context, unless that was taken back; and a shell opens
\* by itself only in a pod of the list, unless its context was left and taken up again.
ListOfContext ==
  /\ \A l \in Launches \ takenBack : debugPods[l] # "none" => launchOf[l].ctx = bench.ctx
  /\ unlisted \subseteq left

\* What the launcher lists of the pods it has made.
LauncherTrue == LaunchTypeOK /\ LaunchesSettle /\ PodsListed /\ ListOfContext

=============================================================================
