--------------------------- MODULE SidecarProcess ---------------------------
(***************************************************************************)
(* The life of the sidecar process in Electron's main process: startSidecar*)
(* and stopSidecar, run by the start of the application, by restarts, by   *)
(* changes of the kubeconfig path and by quitting.                         *)
(*                                                                         *)
(* The main process runs one piece of code at a time; what it awaits (a    *)
(* stop, a free port, the health poll) is where others come in between.  A *)
(* start spawns at most one child, which is named after it.                *)
(***************************************************************************)
EXTENDS Naturals

CONSTANTS Boot,       \* the start made when the application is ready
          Restarts,   \* starts the renderer asks for (sidecar:restart)
          Reloads,    \* stops and starts after a change of kubeconfig path
          NoChild

ProcStarts == {Boot} \cup Restarts \cup Reloads

ASSUME ProcessAssumption == NoChild \notin ProcStarts /\ Boot \notin Restarts \cup Reloads

VARIABLES
  app,      \* "running", "quitting" (before-quit awaits), "ending", "gone"
  start,    \* where each start is
  awaits,   \* the child whose exit a start's stop awaits
  quitting, \* the child whose exit the quit awaits
  sidecar,  \* sidecarProcess
  complete, \* startupComplete
  shutting, \* shuttingDown
  child,    \* the processes
  port,     \* the port each was given
  active,   \* activeSidecarPort
  told,     \* children sent SIGTERM (SIGKILL after 2 s)
  crashed,  \* history: the renderer was told that the sidecar has crashed
  overlap   \* history: a start has got to its port with another under way

procVars == <<app, start, awaits, quitting, sidecar, complete, shutting, child, port, active,
              told, crashed, overlap>>

Alive   == {c \in ProcStarts : child[c] \in {"spawned", "listening", "ready"}}
Busy(s) == start[s] \in {"stopping", "port", "polling"}

\* Ports: the preferred one, or one of the start's own.
Preferred  == NoChild
PortTaken(p) == \E c \in Alive : child[c] \in {"listening", "ready"} /\ port[c] = p

ProcTypeOK ==
  /\ app \in {"running", "quitting", "ending", "gone"}
  /\ start \in [ProcStarts -> {"idle", "stopping", "port", "polling", "silent", "resolved",
                               "rejected"}]
  /\ awaits \in [ProcStarts -> ProcStarts \cup {NoChild}]
  /\ quitting \in ProcStarts \cup {NoChild}
  /\ sidecar \in ProcStarts \cup {NoChild}
  /\ complete \in BOOLEAN /\ shutting \in BOOLEAN
  /\ child \in [ProcStarts -> {"none", "unspawned", "spawned", "listening", "ready", "dead",
                               "reaped"}]
  /\ port \in [ProcStarts -> ProcStarts \cup {Preferred}]
  /\ active \in ProcStarts \cup {Preferred}
  /\ told \subseteq ProcStarts
  /\ crashed \in BOOLEAN /\ overlap \in BOOLEAN

ProcInit ==
  /\ app = "running"
  /\ start = [s \in ProcStarts |-> "idle"]
  /\ awaits = [s \in ProcStarts |-> NoChild]
  /\ quitting = NoChild
  /\ sidecar = NoChild
  /\ complete = FALSE /\ shutting = FALSE
  /\ child = [s \in ProcStarts |-> "none"]
  /\ port = [s \in ProcStarts |-> Preferred]
  /\ active = Preferred
  /\ told = {}
  /\ crashed = FALSE /\ overlap = FALSE

--------------------------------------------------------------------------
(* startSidecar                                                            *)

\* Slip: the process is forgotten and not told to end.
SlipSignal ==
  /\ complete' = FALSE /\ shutting' = TRUE
  /\ sidecar' = NoChild
  /\ UNCHANGED told

\* stopSidecar with a process: the flags, the signal; its exit is awaited.
Signal ==
  /\ complete' = FALSE /\ shutting' = TRUE
  /\ told' = told \cup {sidecar}
  /\ sidecar' = NoChild

\* Past the stop: shuttingDown is reset, and a port is looked for.
ToPort(s) ==
  /\ start' = [start EXCEPT ![s] = "port"]
  /\ shutting' = FALSE
  /\ overlap' = (overlap \/ \E t \in ProcStarts \ {s} : Busy(t))

\* Slip: a start does not stop the process there is.
SlipStartSidecar(s) ==
  /\ start[s] = "idle" /\ app = "running"
  /\ s # Boot => start[Boot] \in {"resolved", "rejected"}
  /\ ToPort(s)
  /\ UNCHANGED <<app, awaits, quitting, sidecar, complete, child, port, active, told, crashed>>

\* Restarts come from a window, which there is once the first start has ended.
StartSidecar(s) ==
  /\ start[s] = "idle" /\ app = "running"
  /\ s # Boot => start[Boot] = "resolved"
  /\ IF sidecar # NoChild
     THEN /\ awaits' = [awaits EXCEPT ![s] = sidecar]
          /\ start' = [start EXCEPT ![s] = "stopping"]
          /\ Signal
          /\ UNCHANGED overlap
     ELSE ToPort(s) /\ UNCHANGED <<awaits, sidecar, complete, told>>
  /\ UNCHANGED <<app, quitting, child, port, active, crashed>>

\* The binary is missing.
BinaryMissing(s) ==
  /\ start[s] = "idle" /\ app = "running" /\ sidecar = NoChild
  /\ s # Boot => start[Boot] = "resolved"
  /\ start' = [start EXCEPT ![s] = "rejected"]
  /\ UNCHANGED <<app, awaits, quitting, sidecar, complete, shutting, child, port, active, told,
                 crashed, overlap>>

\* findFreePort resolves and the child is spawned, or cannot be: 'error' comes
\* then, and never 'exit'.
Spawn(s) ==
  /\ start[s] = "port" /\ app # "gone"
  /\ \E p \in {Preferred, s} :
        /\ p = Preferred <=> ~PortTaken(Preferred)
        /\ port' = [port EXCEPT ![s] = p]
        /\ active' = p
  /\ sidecar' = s
  /\ \/ /\ child' = [child EXCEPT ![s] = "spawned"]
        /\ start' = [start EXCEPT ![s] = "polling"]
     \/ /\ child' = [child EXCEPT ![s] = "unspawned"]
        /\ start' = [start EXCEPT ![s] = "rejected"]
  /\ UNCHANGED <<app, awaits, quitting, complete, shutting, told, crashed, overlap>>

\* The poll asks the port of the last spawn, whichever child this start's is.
Healthy == \E c \in Alive : child[c] = "ready" /\ port[c] = active

\* Slip: a start that has succeeded does not set the flag for crashes.
SlipCheckReady(s) ==
  /\ start[s] = "polling" /\ Healthy
  /\ start' = [start EXCEPT ![s] = "resolved"]
  /\ UNCHANGED <<app, awaits, quitting, sidecar, complete, shutting, child, port, active, told,
                 crashed, overlap>>

CheckReady(s) ==
  /\ start[s] = "polling" /\ Healthy
  /\ start' = [start EXCEPT ![s] = "resolved"]
  /\ complete' = TRUE
  /\ UNCHANGED <<app, awaits, quitting, sidecar, shutting, child, port, active, told, crashed,
                 overlap>>

\* 180 attempts have failed, or the poll finds that there is no process.
GiveUp(s) ==
  /\ start[s] = "polling" /\ ~Healthy
  /\ \/ start' = [start EXCEPT ![s] = "rejected"]
     \/ sidecar = NoChild /\ start' = [start EXCEPT ![s] = "silent"]
  /\ UNCHANGED <<app, awaits, quitting, sidecar, complete, shutting, child, port, active, told,
                 crashed, overlap>>

--------------------------------------------------------------------------
(* The processes                                                           *)

\* The server listens at once; without its port it ends only after the sync.
Listen(c) ==
  /\ child[c] = "spawned" /\ ~PortTaken(port[c])
  /\ child' = [child EXCEPT ![c] = "listening"]
  /\ UNCHANGED <<app, start, awaits, quitting, sidecar, complete, shutting, port, active, told,
                 crashed, overlap>>

Ready(c) ==
  /\ child[c] = "listening"
  /\ child' = [child EXCEPT ![c] = "ready"]
  /\ UNCHANGED <<app, start, awaits, quitting, sidecar, complete, shutting, port, active, told,
                 crashed, overlap>>

Die(c) ==
  /\ c \in Alive
  /\ child' = [child EXCEPT ![c] = "dead"]
  /\ UNCHANGED <<app, start, awaits, quitting, sidecar, complete, shutting, port, active, told,
                 crashed, overlap>>

\* The 'exit' event: the listener for crashes, the start's own while it polls,
\* and the stop that waits.
ExitEvent(c) ==
  /\ child[c] = "dead" /\ app # "gone"
  /\ child' = [child EXCEPT ![c] = "reaped"]
  /\ crashed' = (crashed \/ (sidecar = c /\ complete))
  /\ LET left    == IF sidecar = c THEN NoChild ELSE sidecar
         settled == IF start[c] \in {"polling", "silent"}
                    THEN IF shutting THEN "resolved" ELSE "rejected"
                    ELSE start[c]
         waiting == {s \in ProcStarts : start[s] = "stopping" /\ awaits[s] = c}
         again   == left # NoChild /\ waiting \subseteq Reloads
     IN  IF waiting = {}
         THEN /\ start' = [start EXCEPT ![c] = settled]
              /\ sidecar' = left
              /\ UNCHANGED <<awaits, complete, shutting, told, overlap>>
         ELSE \E s \in waiting :
              /\ start' = [start EXCEPT ![c] = settled, ![s] = IF again THEN "stopping" ELSE "port"]
              /\ shutting' = again
              /\ sidecar' = IF again THEN NoChild ELSE left
              /\ complete' = IF again THEN FALSE ELSE complete
              /\ told' = IF again THEN told \cup {left} ELSE told
              /\ awaits' = [awaits EXCEPT ![s] = IF again THEN left ELSE NoChild]
              /\ overlap' = (overlap \/ \E t \in ProcStarts \ {s, c} : Busy(t))
  /\ quitting' = IF quitting = c THEN NoChild ELSE quitting
  /\ app' = IF app = "quitting" /\ quitting = c THEN "ending" ELSE app
  /\ UNCHANGED <<port, active>>

--------------------------------------------------------------------------
(* Quitting                                                                *)

\* before-quit: the user's, or the application's after a start that failed.
BeforeQuit ==
  /\ app = "running"
  /\ IF sidecar = NoChild
     THEN app' = "ending" /\ UNCHANGED <<quitting, sidecar, complete, shutting, told>>
     ELSE app' = "quitting" /\ quitting' = sidecar /\ Signal
  /\ UNCHANGED <<start, awaits, child, port, active, crashed, overlap>>

\* process.on('exit') kills the process there is.
Exit ==
  /\ app = "ending" /\ app' = "gone"
  /\ told' = IF sidecar = NoChild THEN told ELSE told \cup {sidecar}
  /\ UNCHANGED <<start, awaits, quitting, sidecar, complete, shutting, child, port, active,
                 crashed, overlap>>

ProcNext ==
  \/ \E s \in ProcStarts : \/ StartSidecar(s) \/ BinaryMissing(s) \/ Spawn(s) \/ CheckReady(s)
                           \/ GiveUp(s)
                           \/ Listen(s) \/ Ready(s) \/ Die(s) \/ ExitEvent(s)
  \/ BeforeQuit \/ Exit

\* A process that was sent a signal dies, its exit is reported, the poll ends
\* after 90 s, and the main process goes on with what it has awaited.
ProcFairness ==
  /\ \A c \in ProcStarts : /\ WF_procVars(c \in told /\ Die(c))
                           /\ WF_procVars(ExitEvent(c))
                           /\ WF_procVars(Spawn(c))
                           /\ WF_procVars(CheckReady(c) \/ GiveUp(c))
  /\ WF_procVars(Exit)

ProcSpec == ProcInit /\ [][ProcNext]_procVars /\ ProcFairness

--------------------------------------------------------------------------
(* Properties                                                              *)

\* When the application is gone every sidecar it has spawned is dead or has
\* been told to die, unless two starts overlapped: the one that spawns first is
\* then forgotten and outlives the application.
NoOrphan == app = "gone" => overlap \/ Alive \subseteq told

\* A running application that has no sidecar, and is not about to have one, has
\* said so: the crash notice was sent or a start was refused.
AbsenceReported ==
  app = "running" /\ sidecar = NoChild /\ ~crashed =>
     \/ \E s \in ProcStarts : Busy(s) \/ start[s] = "rejected"
     \/ \A s \in ProcStarts : start[s] = "idle"

\* A quit ends, unless the process could not be spawned: Node reports no exit
\* of a process that never was, and the stop awaits it.
QuitEnds ==
  app = "quitting" ~> (app = "gone" \/ \E c \in ProcStarts : quitting = c /\ child[c] = "unspawned")

\* Every start is answered, or waits for the exit of such a process, or has been
\* left behind by an overlapping one.
StartsEnd ==
  \A s \in ProcStarts :
     Busy(s) ~> (\/ ~Busy(s)
                 \/ app = "gone"
                 \/ start[s] = "stopping" /\ child[awaits[s]] = "unspawned")

\* Whatever waits for a process of the main process's own comes back: quits and
\* starts, but for the named exception.
ProcessCallsEnd == QuitEnds /\ StartsEnd

\* What becomes of the processes the application spawns, and what it says of them.
ProcessTrue == ProcTypeOK /\ NoOrphan /\ AbsenceReported
=============================================================================
