--------------------------- MODULE ServicesProofs ---------------------------
(* What becomes of the sidecar processes, of the tool calls of podscape-mcp, *)
(* of the rows of port forwards and of the tunnels behind them, and of the   *)
(* Hubble client's tunnel: five components that share no state, for any      *)
(* number of calls, contexts, restarts, forwards and switches.               *)
EXTENDS SidecarProcess, McpServer, ForwardPath, PortForward, Hubble, SequenceTheorems, TLAPS

(***************************************************************************)
(* The life cycle of the sidecar process                                   *)
(***************************************************************************)

-----------------------------------------------------------------------------
(* The exit of a process: what its start is told, and who has waited.      *)

Left(c)       == IF sidecar = c THEN NoChild ELSE sidecar
Awaiting(c)   == {s \in ProcStarts : start[s] = "stopping" /\ awaits[s] = c}
ToldByExit(c) == IF start[c] \in {"polling", "silent"}
                 THEN IF shutting THEN "resolved" ELSE "rejected"
                 ELSE start[c]

StartStates == {"idle", "stopping", "port", "polling", "silent", "resolved", "rejected"}

\* What the exit of a process changes whoever waits for it.
LEMMA ExitOfChild ==
  ASSUME NEW c \in ProcStarts, ExitEvent(c), ProcTypeOK
  PROVE  /\ child[c] = "dead" /\ child' = [child EXCEPT ![c] = "reaped"]
         /\ crashed' \in BOOLEAN /\ (crashed \/ (sidecar = c /\ complete) => crashed')
         /\ quitting' \in {quitting, NoChild}
         /\ app # "gone" /\ app' \in {app, "ending"} /\ (app' # app => app = "quitting")
         /\ UNCHANGED <<port, active>>
BY Zenon DEF ExitEvent, ProcTypeOK

\* The exit when nobody waits for it.
LEMMA ExitAlone ==
  ASSUME NEW c \in ProcStarts, ExitEvent(c), Awaiting(c) = {}
  PROVE  /\ start' = [start EXCEPT ![c] = ToldByExit(c)]
         /\ sidecar' = Left(c)
         /\ UNCHANGED <<awaits, complete, shutting, told, overlap>>
BY Zenon DEF ExitEvent, Awaiting, ToldByExit, Left

\* The one stop that goes on looks for a port, or a reload stops the next process.
HandsOn(c, s) ==
  /\ overlap' = (overlap \/ \E t \in ProcStarts \ {s, c} : Busy(t))
  /\ \/ /\ start' = [start EXCEPT ![c] = ToldByExit(c), ![s] = "port"]
        /\ shutting' = FALSE /\ sidecar' = Left(c)
        /\ awaits' = [awaits EXCEPT ![s] = NoChild]
        /\ complete' = complete /\ told' = told
     \/ /\ Left(c) # NoChild
        /\ start' = [start EXCEPT ![c] = ToldByExit(c), ![s] = "stopping"]
        /\ shutting' = TRUE /\ complete' = FALSE
        /\ sidecar' = NoChild
        /\ told' = told \cup {Left(c)}
        /\ awaits' = [awaits EXCEPT ![s] = Left(c)]

\* The exit when a stop has waited for it.
LEMMA ExitHandsOn ==
  ASSUME NEW c \in ProcStarts, ExitEvent(c), Awaiting(c) # {}
  PROVE  \E s \in Awaiting(c) : HandsOn(c, s)
<1> DEFINE again == Left(c) # NoChild /\ Awaiting(c) \subseteq Reloads
<1>1. PICK s \in Awaiting(c) :
        /\ start' = [start EXCEPT ![c] = ToldByExit(c), ![s] = IF again THEN "stopping" ELSE "port"]
        /\ shutting' = again
        /\ sidecar' = IF again THEN NoChild ELSE Left(c)
        /\ complete' = IF again THEN FALSE ELSE complete
        /\ told' = IF again THEN told \cup {Left(c)} ELSE told
        /\ awaits' = [awaits EXCEPT ![s] = IF again THEN Left(c) ELSE NoChild]
        /\ overlap' = (overlap \/ \E t \in ProcStarts \ {s, c} : Busy(t))
  BY Zenon DEF ExitEvent, Awaiting, ToldByExit, Left
<1> QED
  BY <1>1, Zenon DEF HandsOn

-----------------------------------------------------------------------------
(* Type correctness.                                                       *)

\* Every reachable state has values of the declared types: a stop that goes round
\* again awaits a process, and a signal is sent to a process.
THEOREM TypeCorrect == ProcSpec => []ProcTypeOK
<1>1. ProcInit => ProcTypeOK
  BY DEF ProcInit, ProcTypeOK, ProcStarts, Preferred
<1>2. ProcTypeOK /\ [ProcNext]_procVars => ProcTypeOK'
  <2> SUFFICES ASSUME ProcTypeOK, [ProcNext]_procVars
               PROVE  ProcTypeOK'
    OBVIOUS
  <2> USE DEF ProcTypeOK, Preferred, StartStates
  <2>1. ASSUME NEW s \in ProcStarts, StartSidecar(s)
        PROVE  ProcTypeOK'
    <3>1. CASE sidecar # NoChild
      BY <2>1, <3>1, Zenon DEF StartSidecar, Signal
    <3>2. CASE sidecar = NoChild
      BY <2>1, <3>2 DEF StartSidecar, ToPort
    <3> QED
      BY <3>1, <3>2
  <2>2. ASSUME NEW s \in ProcStarts, BinaryMissing(s)
        PROVE  ProcTypeOK'
    BY <2>2 DEF BinaryMissing
  <2>3. ASSUME NEW s \in ProcStarts, Spawn(s)
        PROVE  ProcTypeOK'
    BY <2>3 DEF Spawn
  <2>4. ASSUME NEW s \in ProcStarts, CheckReady(s) \/ GiveUp(s)
        PROVE  ProcTypeOK'
    BY <2>4 DEF CheckReady, GiveUp
  <2>5. ASSUME NEW c \in ProcStarts, Listen(c) \/ Ready(c) \/ Die(c)
        PROVE  ProcTypeOK'
    BY <2>5 DEF Listen, Ready, Die
  <2>6. ASSUME NEW c \in ProcStarts, ExitEvent(c)
        PROVE  ProcTypeOK'
    <3>1. Left(c) \in ProcStarts \cup {NoChild}
      BY DEF Left
    <3>2. ToldByExit(c) \in StartStates
      BY DEF ToldByExit
    <3>3. CASE Awaiting(c) = {}
      BY <2>6, <3>1, <3>2, <3>3, ExitAlone, ExitOfChild
    <3>4. CASE Awaiting(c) # {}
      <4>1. PICK s \in Awaiting(c) : HandsOn(c, s)
        BY <2>6, <3>4, ExitHandsOn
      <4>2. s \in ProcStarts
        BY DEF Awaiting
      <4>3. /\ start' \in [ProcStarts -> StartStates]
            /\ awaits' \in [ProcStarts -> ProcStarts \cup {NoChild}]
            /\ told' \subseteq ProcStarts
            /\ sidecar' \in ProcStarts \cup {NoChild}
        BY <3>1, <3>2, <4>1, <4>2 DEF HandsOn
      <4>4. complete' \in BOOLEAN /\ shutting' \in BOOLEAN /\ overlap' \in BOOLEAN
        BY <4>1, Zenon DEF HandsOn
      <4> QED
        BY <2>6, <4>3, <4>4, ExitOfChild
    <3> QED
      BY <3>3, <3>4
  <2>7. ASSUME BeforeQuit \/ Exit
        PROVE  ProcTypeOK'
    BY <2>7 DEF BeforeQuit, Exit, Signal
  <2>8. ASSUME UNCHANGED procVars
        PROVE  ProcTypeOK'
    BY <2>8 DEF procVars
  <2> QED
    BY <2>1, <2>2, <2>3, <2>4, <2>5, <2>6, <2>7, <2>8 DEF ProcNext
<1> QED
  BY <1>1, <1>2, PTL DEF ProcSpec

-----------------------------------------------------------------------------
(* No sidecar outlives the application.                                    *)

\* A start that has not spawned has no child.
Unborn == \A s \in ProcStarts : start[s] \in {"idle", "stopping", "port"} => child[s] = "none"

\* A start that has its port is alone.
PortAlone ==
  \A s \in ProcStarts : start[s] = "port" => overlap \/ \A t \in ProcStarts \ {s} : ~Busy(t)

\* While a start stops the process before it, or looks for a port, there is no other process.
Yielded == \A s \in ProcStarts : start[s] \in {"stopping", "port"} => overlap \/ sidecar = NoChild

\* Whatever lives has been told to die or is the process that a quit would tell.
Known == overlap \/ Alive \subseteq told \cup {sidecar}

OrphanInv == Unborn /\ PortAlone /\ Yielded /\ Known /\ NoOrphan

\* A start first tells the process there is to die, or has none to tell.
LEMMA OrphanOfStart ==
  ASSUME OrphanInv, ProcTypeOK, NEW s \in ProcStarts, StartSidecar(s)
  PROVE  OrphanInv'
<1> USE ProcessAssumption DEF OrphanInv, ProcTypeOK, Unborn, PortAlone, Yielded, Known, NoOrphan
<1>1. /\ start[s] = "idle" /\ app = "running"
      /\ UNCHANGED <<app, child, crashed>>
  BY DEF StartSidecar
<1>2. CASE sidecar # NoChild
  <2>1. /\ start' = [start EXCEPT ![s] = "stopping"]
        /\ sidecar' = NoChild /\ told' = told \cup {sidecar} /\ overlap' = overlap
    BY <1>2 DEF StartSidecar, Signal
  <2> QED
    BY <1>1, <1>2, <2>1 DEF Busy, Alive
<1>3. CASE sidecar = NoChild
  <2>1. /\ start' = [start EXCEPT ![s] = "port"]
        /\ overlap' = (overlap \/ \E t \in ProcStarts \ {s} : Busy(t))
        /\ sidecar' = sidecar /\ told' = told
    BY <1>3 DEF StartSidecar, ToPort
  <2>2. overlap => overlap'
    BY <2>1, Zenon
  <2>3. CASE overlap'
    BY <1>1, <2>1, <2>3 DEF Busy, Alive
  <2>4. CASE ~overlap'
    <3>1. ~overlap /\ \A t \in ProcStarts \ {s} : ~Busy(t)
      BY <2>1, <2>4, Zenon
    <3> QED
      BY <1>1, <1>3, <2>1, <3>1 DEF Busy, Alive
  <2> QED
    BY <2>3, <2>4
<1> QED
  BY <1>2, <1>3

\* An exit hands the place on to one start, and no start finds a process that is not its own.
LEMMA OrphanOfExit ==
  ASSUME OrphanInv, ProcTypeOK, NEW c \in ProcStarts, ExitEvent(c), ProcTypeOK'
  PROVE  OrphanInv'
<1> USE ProcessAssumption DEF OrphanInv, ProcTypeOK, Unborn, PortAlone, Yielded, Known, NoOrphan
<1>1. /\ child[c] = "dead" /\ child' = [child EXCEPT ![c] = "reaped"]
      /\ app # "gone" /\ app' \in {app, "ending"}
      /\ start[c] \notin {"idle", "stopping", "port"}
  BY ExitOfChild
<1>2. ToldByExit(c) \notin {"idle", "stopping", "port", "polling"}
  BY <1>1 DEF ToldByExit
<1>3. CASE Awaiting(c) = {}
  BY <1>1, <1>2, <1>3, ExitAlone DEF Busy, Alive, Left
<1>4. CASE Awaiting(c) # {}
  <2>1. PICK s \in Awaiting(c) : HandsOn(c, s)
    BY <1>4, ExitHandsOn
  <2>2. s \in ProcStarts /\ start[s] = "stopping" /\ c # s
    BY <1>1 DEF Awaiting
  <2>3. overlap' = (overlap \/ \E t \in ProcStarts \ {s, c} : Busy(t))
    BY <2>1 DEF HandsOn
  <2>4. CASE overlap'
    BY <1>1, <1>2, <2>1, <2>2, <2>4 DEF HandsOn, Busy, Alive
  <2>5. CASE ~overlap'
    <3>1. ~overlap /\ \A t \in ProcStarts \ {s, c} : ~Busy(t)
      BY <2>3, <2>5, Zenon
    <3>2. sidecar = NoChild /\ Left(c) = NoChild
      BY <2>2, <3>1 DEF Left
    <3>3. /\ start' = [start EXCEPT ![c] = ToldByExit(c), ![s] = "port"]
          /\ sidecar' = NoChild /\ told' = told
      BY <2>1, <3>2 DEF HandsOn
    <3> QED
      BY <1>1, <1>2, <2>2, <3>1, <3>2, <3>3 DEF Busy, Alive
  <2> QED
    BY <2>4, <2>5
<1> QED
  BY <1>3, <1>4

\* No step forgets a process that lives, unless starts overlap.
LEMMA OrphanStep == OrphanInv /\ ProcTypeOK /\ ProcTypeOK' /\ [ProcNext]_procVars => OrphanInv'
<1> SUFFICES ASSUME OrphanInv, ProcTypeOK, ProcTypeOK', [ProcNext]_procVars
             PROVE  OrphanInv'
  OBVIOUS
<1>a USE ProcessAssumption
     DEF OrphanInv, ProcTypeOK, Unborn, PortAlone, Yielded, Known, NoOrphan, Busy, Alive
<1>1. ASSUME NEW s \in ProcStarts, StartSidecar(s) PROVE OrphanInv'
  BY <1>1, OrphanOfStart
<1>2. ASSUME NEW s \in ProcStarts, BinaryMissing(s) PROVE OrphanInv'
  BY <1>2 DEF BinaryMissing
<1>3. ASSUME NEW s \in ProcStarts, Spawn(s) PROVE OrphanInv'
  BY <1>3 DEF Spawn
<1>4. ASSUME NEW s \in ProcStarts, CheckReady(s) \/ GiveUp(s) PROVE OrphanInv'
  BY <1>4 DEF CheckReady, GiveUp
<1>5. ASSUME NEW c \in ProcStarts, Listen(c) \/ Ready(c) \/ Die(c) PROVE OrphanInv'
  BY <1>5 DEF Listen, Ready, Die
<1>6. ASSUME NEW c \in ProcStarts, ExitEvent(c) PROVE OrphanInv'
  BY <1>6, OrphanOfExit
<1>7. ASSUME BeforeQuit \/ Exit PROVE OrphanInv'
  BY <1>7 DEF BeforeQuit, Exit, Signal
<1>8. ASSUME UNCHANGED procVars PROVE OrphanInv'
  BY <1>8 DEF procVars
<1> QED
  BY <1>1, <1>2, <1>3, <1>4, <1>5, <1>6, <1>7, <1>8 DEF ProcNext

-----------------------------------------------------------------------------
(* A running application says that its sidecar is gone.                    *)

\* The process there is belongs to a start that polls it or has been answered, and
\* one that came up has the flag set by which its crash is told.
OfStart ==
  sidecar # NoChild =>
     /\ start[sidecar] \in {"polling", "resolved", "rejected"}
     /\ start[sidecar] = "resolved" => complete

\* Exits are expected only while a start stops a process, or the application ends.
StopExpected == app = "running" /\ shutting => \E s \in ProcStarts : start[s] = "stopping"

\* Without a process, a start will spawn one or was refused, or none was made.
Replaced ==
  app = "running" /\ sidecar = NoChild /\ ~crashed =>
     \/ \E s \in ProcStarts : start[s] \in {"stopping", "port", "rejected"}
     \/ \A s \in ProcStarts : start[s] = "idle"

AbsenceInv == Unborn /\ OfStart /\ StopExpected /\ Replaced

\* An exit nobody asked for is told, or refuses the start that polls.
LEMMA AbsenceOfExit ==
  ASSUME AbsenceInv, ProcTypeOK, NEW c \in ProcStarts, ExitEvent(c), ProcTypeOK'
  PROVE  AbsenceInv'
<1> USE ProcessAssumption DEF AbsenceInv, ProcTypeOK, Unborn, OfStart, StopExpected, Replaced
<1>1. /\ child[c] = "dead" /\ child' = [child EXCEPT ![c] = "reaped"]
      /\ app # "gone" /\ app' \in {app, "ending"}
      /\ start[c] \notin {"idle", "stopping", "port"}
  BY ExitOfChild
<1>2. crashed \/ (sidecar = c /\ complete) => crashed'
  BY ExitOfChild
<1>3. /\ ToldByExit(c) \notin {"idle", "stopping", "port", "polling"}
      /\ start[c] = "resolved" => ToldByExit(c) = "resolved"
      /\ start[c] = "rejected" => ToldByExit(c) = "rejected"
      /\ start[c] = "polling" /\ ~shutting => ToldByExit(c) = "rejected"
  BY <1>1 DEF ToldByExit
<1>4. CASE Awaiting(c) = {}
  <2>1. /\ start' = [start EXCEPT ![c] = ToldByExit(c)]
        /\ sidecar' = Left(c) /\ complete' = complete /\ shutting' = shutting
    BY <1>4, ExitAlone
  <2>2. (Unborn /\ OfStart /\ StopExpected)'
    BY <1>1, <1>3, <2>1 DEF Left
  <2>3. Replaced'
    <3>1. CASE sidecar = c
      BY <1>1, <1>2, <1>3, <2>1, <3>1 DEF Left
    <3>2. CASE sidecar # c
      BY <1>1, <1>2, <1>3, <2>1, <3>2 DEF Left
    <3> QED
      BY <3>1, <3>2
  <2> QED
    BY <2>2, <2>3
<1>5. CASE Awaiting(c) # {}
  <2>1. PICK s \in Awaiting(c) : HandsOn(c, s)
    BY <1>5, ExitHandsOn
  <2>2. s \in ProcStarts /\ start[s] = "stopping" /\ c # s
    BY <1>1 DEF Awaiting
  <2> QED
    BY <1>1, <1>2, <1>3, <2>1, <2>2 DEF HandsOn, Left
<1> QED
  BY <1>4, <1>5

\* No step leaves the application without a process and without saying so.
LEMMA AbsenceStep ==
  AbsenceInv /\ ProcTypeOK /\ ProcTypeOK' /\ [ProcNext]_procVars => AbsenceInv'
<1> SUFFICES ASSUME AbsenceInv, ProcTypeOK, ProcTypeOK', [ProcNext]_procVars
             PROVE  AbsenceInv'
  OBVIOUS
<1>a USE ProcessAssumption DEF AbsenceInv, ProcTypeOK, Unborn, OfStart, StopExpected, Replaced
<1>1. ASSUME NEW s \in ProcStarts, StartSidecar(s) PROVE AbsenceInv'
  BY <1>1 DEF StartSidecar, Signal, ToPort
<1>2. ASSUME NEW s \in ProcStarts, BinaryMissing(s) PROVE AbsenceInv'
  BY <1>2 DEF BinaryMissing
<1>3. ASSUME NEW s \in ProcStarts, Spawn(s) PROVE AbsenceInv'
  BY <1>3 DEF Spawn
<1>4. ASSUME NEW s \in ProcStarts, CheckReady(s) \/ GiveUp(s) PROVE AbsenceInv'
  BY <1>4 DEF CheckReady, GiveUp
<1>5. ASSUME NEW c \in ProcStarts, Listen(c) \/ Ready(c) \/ Die(c) PROVE AbsenceInv'
  BY <1>5 DEF Listen, Ready, Die, Alive
<1>6. ASSUME NEW c \in ProcStarts, ExitEvent(c) PROVE AbsenceInv'
  BY <1>6, AbsenceOfExit
<1>7. ASSUME BeforeQuit \/ Exit PROVE AbsenceInv'
  BY <1>7 DEF BeforeQuit, Exit, Signal
<1>8. ASSUME UNCHANGED procVars PROVE AbsenceInv'
  BY <1>8 DEF procVars
<1> QED
  BY <1>1, <1>2, <1>3, <1>4, <1>5, <1>6, <1>7, <1>8 DEF ProcNext

-----------------------------------------------------------------------------
\* In every reachable state: an application that is gone leaves no sidecar it has not
\* told to die, unless starts overlapped, and a running one without a sidecar is
\* about to have one or has said that it has none.
THEOREM ProcessHolds == ProcSpec => []ProcessTrue
<1>1. ProcInit => OrphanInv /\ AbsenceInv
  BY ProcessAssumption
     DEF ProcInit, OrphanInv, Unborn, PortAlone, Yielded, Known, NoOrphan, Busy, Alive,
         AbsenceInv, OfStart, StopExpected, Replaced
<1>2. AbsenceInv => AbsenceReported
  BY DEF AbsenceInv, Replaced, AbsenceReported, Busy
<1>3. OrphanInv => NoOrphan
  BY DEF OrphanInv
<1> QED
  BY <1>1, <1>2, <1>3, TypeCorrect, OrphanStep, AbsenceStep, PTL DEF ProcSpec, ProcessTrue

(***************************************************************************)
(* The tools of podscape-mcp                                               *)
(***************************************************************************)

-----------------------------------------------------------------------------
(* The API calls of the tools.                                             *)

ApiKinds == {"get", "write", "update", "ask", "join", "evict"}

\* At most four calls, and an update that meets a conflict has a get before it.
WellFormed(calls) ==
  /\ calls \in Seq(ApiKinds) /\ Len(calls) <= 4
  /\ \A i \in DOMAIN calls : calls[i] = "update" => i > 1

PlainLists ==
  {<<>>, <<"get">>, <<"write">>, <<"ask", "write">>, <<"get", "get">>, <<"get", "write">>,
   <<"get", "get", "write">>, <<"get", "evict">>, <<"get", "evict", "evict">>, <<"get", "ask">>,
   <<"get", "get", "ask">>, <<"get", "ask", "ask">>, <<"get", "ask", "ask", "ask">>,
   <<"join", "join", "ask">>, <<"ask", "ask", "ask">>}
CallLists == PlainLists \cup {<<"get", "update">>}

\* Every list a tool can make is one of those.
LEMMA CallListsWellFormed == \A calls \in CallLists : WellFormed(calls)
<1> SUFFICES ASSUME NEW calls \in CallLists
             PROVE  WellFormed(calls)
  OBVIOUS
<1>1. CASE calls = <<"get", "update">>
  <2>1. calls \in Seq(ApiKinds) /\ Len(calls) = 2
    BY <1>1 DEF ApiKinds
  <2>2. calls[1] = "get"
    BY <1>1
  <2>3. \A i \in DOMAIN calls : i = 1 \/ i = 2
    BY <1>1
  <2>4. \A i \in DOMAIN calls : calls[i] = "update" => i = 2
    BY <2>2, <2>3
  <2> QED
    BY <2>1, <2>4 DEF WellFormed
<1>2. CASE calls # <<"get", "update">>
  <2> DEFINE Plain == {"get", "write", "ask", "join", "evict"}
  <2>1. calls \in PlainLists
    BY <1>2 DEF CallLists
  <2>2. /\ <<>> \in Seq(Plain)
        /\ <<"get">> \in Seq(Plain)
        /\ <<"write">> \in Seq(Plain)
        /\ <<"ask", "write">> \in Seq(Plain)
        /\ <<"get", "get">> \in Seq(Plain)
        /\ <<"get", "write">> \in Seq(Plain)
        /\ <<"get", "get", "write">> \in Seq(Plain)
        /\ <<"get", "evict">> \in Seq(Plain)
        /\ <<"get", "evict", "evict">> \in Seq(Plain)
        /\ <<"get", "ask">> \in Seq(Plain)
        /\ <<"get", "get", "ask">> \in Seq(Plain)
        /\ <<"get", "ask", "ask">> \in Seq(Plain)
        /\ <<"get", "ask", "ask", "ask">> \in Seq(Plain)
        /\ <<"join", "join", "ask">> \in Seq(Plain)
        /\ <<"ask", "ask", "ask">> \in Seq(Plain)
    OBVIOUS
  <2>3. calls \in Seq(Plain)
    BY <2>1, <2>2, Zenon DEF PlainLists
  <2>4. Len(calls) <= 4
    <3>1. /\ Len(<<>>) <= 4
          /\ Len(<<"get">>) <= 4
          /\ Len(<<"write">>) <= 4
          /\ Len(<<"ask", "write">>) <= 4
          /\ Len(<<"get", "get">>) <= 4
          /\ Len(<<"get", "write">>) <= 4
          /\ Len(<<"get", "get", "write">>) <= 4
          /\ Len(<<"get", "evict">>) <= 4
          /\ Len(<<"get", "evict", "evict">>) <= 4
          /\ Len(<<"get", "ask">>) <= 4
          /\ Len(<<"get", "get", "ask">>) <= 4
          /\ Len(<<"get", "ask", "ask">>) <= 4
          /\ Len(<<"get", "ask", "ask", "ask">>) <= 4
          /\ Len(<<"join", "join", "ask">>) <= 4
          /\ Len(<<"ask", "ask", "ask">>) <= 4
      OBVIOUS
    <3> QED
      BY <2>1, <3>1, Zenon DEF PlainLists
  <2>5. \A i \in DOMAIN calls : calls[i] \in Plain
    BY <2>3
  <2>6. calls \in Seq(ApiKinds)
    BY <2>3 DEF ApiKinds
  <2> QED
    BY <2>4, <2>5, <2>6 DEF WellFormed
<1> QED
  BY <1>1, <1>2

\* The tools make no other lists than these.
LEMMA ToolsCallLists == ToolSet \subseteq [calls : CallLists, timed : BOOLEAN]
<1> DEFINE Tools == [calls : CallLists, timed : BOOLEAN]
<1>a USE DEF Within, Forever, CallLists, PlainLists
<1>1. /\ handleScaleResource \subseteq Tools
      /\ handleDeleteResource \subseteq Tools
      /\ handleRolloutRestart \subseteq Tools
      /\ handleRolloutUndo \subseteq Tools
      /\ handleApplyYAML \subseteq Tools
      /\ handleCordonNode \subseteq Tools
  BY DEF handleScaleResource, handleDeleteResource, handleRolloutRestart, handleRolloutUndo,
         handleApplyYAML, handleCordonNode, OpsScale, OpsDelete, OpsRolloutRestart,
         OpsRolloutUndo, OpsApplyYAML, OpsListResource, OpsGetResource, Dynamic
<1>2. /\ handleDrainNode \subseteq Tools
      /\ handleTriggerCronJob \subseteq Tools
      /\ handleExecCommand \subseteq Tools
      /\ handleListResources \subseteq Tools
      /\ handleGetResource \subseteq Tools
      /\ handleGetResourceYAML \subseteq Tools
  BY DEF handleDrainNode, handleTriggerCronJob, handleExecCommand, handleListResources,
         handleGetResource, handleGetResourceYAML, OpsScale, OpsDelete, OpsRolloutRestart,
         OpsRolloutUndo, OpsApplyYAML, OpsListResource, OpsGetResource, Dynamic
<1>3. /\ handleGetPodLogs \subseteq Tools
      /\ handleListEvents \subseteq Tools
      /\ handleListContexts \subseteq Tools
      /\ handleGetCurrentContext \subseteq Tools
      /\ handleListNamespaces \subseteq Tools
      /\ handleListCRDs \subseteq Tools
  BY DEF handleGetPodLogs, handleListEvents, handleListContexts, handleGetCurrentContext,
         handleListNamespaces, handleListCRDs, OpsScale, OpsDelete, OpsRolloutRestart,
         OpsRolloutUndo, OpsApplyYAML, OpsListResource, OpsGetResource, Dynamic
<1>4. /\ handleGetMetrics \subseteq Tools
      /\ handlePodSummary \subseteq Tools
      /\ handleClusterHealth \subseteq Tools
      /\ handleListFailingPods \subseteq Tools
      /\ handleGetResourceEvents \subseteq Tools
      /\ handleDescribeResource \subseteq Tools
  BY DEF handleGetMetrics, handlePodSummary, handleClusterHealth, handleListFailingPods,
         handleGetResourceEvents, handleDescribeResource, OpsScale, OpsDelete, OpsRolloutRestart,
         OpsRolloutUndo, OpsApplyYAML, OpsListResource, OpsGetResource, Dynamic
<1>5. /\ handleSecurityScan \subseteq Tools
      /\ handleDetectProviders \subseteq Tools
      /\ handleHelmList \subseteq Tools
      /\ handleHelmStatus \subseteq Tools
      /\ handleHelmValues \subseteq Tools
  BY DEF handleSecurityScan, handleDetectProviders, handleHelmList, handleHelmStatus,
         handleHelmValues, OpsScale, OpsDelete, OpsRolloutRestart, OpsRolloutUndo, OpsApplyYAML,
         OpsListResource, OpsGetResource, Dynamic
<1>6. /\ handleHelmHistory \subseteq Tools
      /\ handleHelmRollback \subseteq Tools
      /\ handleHelmUpgrade \subseteq Tools
      /\ handleHelmUninstall \subseteq Tools
  BY DEF handleHelmHistory, handleHelmRollback, handleHelmUpgrade, handleHelmUninstall, OpsScale,
         OpsDelete, OpsRolloutRestart, OpsRolloutUndo, OpsApplyYAML, OpsListResource,
         OpsGetResource, Dynamic
<1> HIDE DEF Within, Forever, CallLists, PlainLists, Tools
<1>7. ASSUME NEW t \in ToolSet PROVE t \in Tools
  BY <1>1, <1>2, <1>3, <1>4, <1>5, <1>6 DEF ToolSet
<1> QED
  BY <1>7 DEF Tools

\* A tool makes a well-formed list of calls, and is not a switch of context.
LEMMA ToolsWellFormed ==
  ASSUME NEW t \in ToolSet
  PROVE  WellFormed(t.calls) /\ t \notin Switches
<1>1. t \in [calls : CallLists, timed : BOOLEAN]
  BY ToolsCallLists
<1>2. t.calls \in CallLists
  BY <1>1
<1>3. t \notin Switches
  <2>1. "calls" \in DOMAIN t
    BY <1>1
  <2>2. \A s \in Switches : "calls" \notin DOMAIN s
    BY DEF Switches
  <2> QED
    BY <2>1, <2>2
<1> QED
  BY <1>2, <1>3, CallListsWellFormed
-----------------------------------------------------------------------------
(* The invariant: who holds the lock, what a call works with, and what its *)
(* API calls have done so far.                                             *)

SwitchPhases == {"path", "preparing", "queued", "swapping"}

\* A call is of the kind that its phase belongs to.
Kinds ==
  \A r \in ToolCalls :
     /\ phase[r] = "calling" => tool[r] \in ToolSet
     /\ phase[r] \in SwitchPhases => tool[r] \in Switches
     /\ phase[r] = "blocked" => tool[r] \in ToolSet \cup Switches

\* The calls that work with the bundle hold the lock, and the bundle is in place.
Locked ==
  \A r \in ToolCalls :
     /\ r \in holders <=> phase[r] \in {"path", "calling"}
     /\ r \in holders => took[r] = bundle

\* A call that waits for the lock has done nothing.
Untouched ==
  \A r \in ToolCalls :
     phase[r] \in {"idle", "blocked"} => next[r] = 1 /\ lost[r] = {}

\* A write among the calls made was carried out, or is an eviction that failed.
Written(r, i) ==
  tool[r].calls[i] \in Writing =>
     \/ [call |-> r, at |-> i, on |-> took[r]] \in wrote
     \/ tool[r].calls[i] = "evict" /\ i \in lost[r]

Progress ==
  \A r \in ToolCalls : phase[r] = "calling" =>
     /\ next[r] <= Len(tool[r].calls) + 1
     /\ \A i \in 1 .. next[r] - 1 : Written(r, i)
     /\ \A i \in lost[r] : tool[r].calls[i] \in Tolerated

Answered == \A r \in ToolCalls : answer[r] # "none" => phase[r] = "done"

McpInv == McpTypeOK /\ Kinds /\ Locked /\ Untouched /\ Progress /\ Answered /\ AnswersTrue

-----------------------------------------------------------------------------
(* The invariant is inductive.                                             *)

\* A call that begins takes the lock and the bundle in place, or waits for a switch.
LEMMA BeginStep ==
  ASSUME McpInv, NEW r \in ToolCalls, NEW t \in ToolSet \cup Switches, Begin(r, t),
         swaps' \in 0 .. MaxSwaps
  PROVE  McpInv'
<1> USE McpAssumption
    DEF McpInv, McpTypeOK, Kinds, Locked, Untouched, Answered, SwitchPhases, Inside
<1>1. /\ phase[r] = "idle" /\ next[r] = 1 /\ lost[r] = {} /\ answer[r] = "none"
      /\ tool' = [tool EXCEPT ![r] = t]
      /\ UNCHANGED <<bundle, pending, next, attempt, lost, wrote, answer>>
  BY DEF Begin
<1>2. t \in ToolSet => t \notin Switches
  BY ToolsWellFormed
<1>3. Inside(t) \in {"path", "calling"} /\ (Inside(t) = "path" <=> t \in Switches)
  OBVIOUS
<1> HIDE DEF Inside
<1>4. (McpTypeOK /\ Kinds /\ Locked /\ Untouched /\ Answered)'
  BY <1>1, <1>2, <1>3 DEF Begin
<1>5. Progress'
  BY <1>1, <1>2, <1>3 DEF Begin, Progress, Written
<1>6. AnswersTrue'
  BY <1>1 DEF Begin, AnswersTrue
<1> QED
  BY <1>4, <1>5, <1>6

\* The positions in a list of calls.
LEMMA LengthOfCalls ==
  ASSUME NEW calls, WellFormed(calls)
  PROVE  Len(calls) \in 0 .. 4 /\ DOMAIN calls = 1 .. Len(calls)
<1>1. calls \in Seq(ApiKinds) /\ Len(calls) <= 4
  BY DEF WellFormed
<1>2. Len(calls) \in Nat /\ DOMAIN calls = 1 .. Len(calls)
  BY <1>1
<1> QED
  BY <1>1, <1>2

\* An API call that is carried out, meets a conflict or fails keeps the invariant: what
\* fails and does not end the tool is one of the calls that may fail.
LEMMA ApiStepKeeps ==
  ASSUME McpInv, NEW r \in ToolCalls, ApiStep(r)
  PROVE  McpInv'
<1> USE McpAssumption DEF McpInv, McpTypeOK, Kinds, Locked, Untouched, Answered, SwitchPhases
<1> DEFINE calls == tool[r].calls
<1>1. /\ phase[r] = "calling" /\ next[r] <= Len(calls) /\ answer[r] = "none"
      /\ r \in holders /\ took[r] = bundle
  BY DEF ApiStep, ApiSucceeds, ApiConflicts, ApiFails, Making
<1>2. WellFormed(calls)
  BY <1>1, ToolsWellFormed
<1>3. /\ Len(calls) \in 1 .. 4 /\ DOMAIN calls = 1 .. Len(calls)
      /\ next[r] \in 1 .. 4 /\ next[r] + 1 \in 1 .. 5
  <2>1. Len(calls) \in 0 .. 4 /\ DOMAIN calls = 1 .. Len(calls)
    BY <1>2, LengthOfCalls
  <2>2. next[r] \in 1 .. 5
    OBVIOUS
  <2> HIDE DEF McpInv, calls
  <2> QED
    BY <1>1, <2>1, <2>2
<1>4. \A i \in lost[r] : calls[i] \in Tolerated
  BY <1>1 DEF Progress
<1>5. \A i \in 1 .. next[r] - 1 : Written(r, i)
  BY <1>1 DEF Progress
<1> HIDE DEF calls
<1>6. CASE ApiSucceeds(r)
  <2>1. /\ next' = [next EXCEPT ![r] = @ + 1]
        /\ UNCHANGED <<bundle, swaps, holders, pending, phase, tool, took, attempt, lost, answer>>
        /\ wrote' = IF ApiCall(r) \in Writing
                    THEN wrote \cup {[call |-> r, at |-> next[r], on |-> took[r]]} ELSE wrote
    BY <1>6 DEF ApiSucceeds, CarriedOut
  <2>2. (McpTypeOK /\ Kinds /\ Locked /\ Untouched /\ Answered)'
    BY <1>1, <1>3, <2>1
  <2>3. wrote \subseteq wrote'
    BY <2>1
  <2>4. Progress'
    <3> SUFFICES ASSUME NEW s \in ToolCalls, phase[s] = "calling"
                 PROVE  /\ next'[s] <= Len(tool[s].calls) + 1
                        /\ \A i \in 1 .. next'[s] - 1 : Written(s, i)'
                        /\ \A i \in lost[s] : tool[s].calls[i] \in Tolerated
      BY <2>1 DEF Progress
    <3>1. CASE s # r
      BY <2>1, <2>3, <3>1 DEF Progress, Written
    <3>2. CASE s = r
      <4>1. next'[r] = next[r] + 1
        BY <2>1
      <4> HIDE DEF McpInv, McpTypeOK, Kinds, Locked, Untouched, Answered
      <4>2. ApiCall(r) \in Writing => [call |-> r, at |-> next[r], on |-> took[r]] \in wrote'
        BY <2>1, Zenon
      <4>3. \A i \in 1 .. next[r] : Written(r, i)'
        <5>1. ASSUME NEW i, i = next[r]
              PROVE  Written(r, i)'
          BY <2>1, <4>2, <5>1, Zenon DEF Written, ApiCall
        <5>2. \A i \in 1 .. next[r] - 1 : Written(r, i)'
          BY <1>5, <2>1, <2>3, Zenon DEF Written
        <5>3. \A i \in 1 .. next[r] : i = next[r] \/ i \in 1 .. next[r] - 1
          BY <1>3
        <5> QED
          BY <5>1, <5>2, <5>3, Zenon
      <4>4. next'[r] <= Len(tool[r].calls) + 1 /\ next'[r] - 1 = next[r]
        BY <1>1, <1>3, <4>1 DEF calls
      <4>5. \A i \in lost[r] : tool[r].calls[i] \in Tolerated
        BY <1>3, <1>4, <4>1 DEF calls
      <4> QED
        BY <3>2, <4>3, <4>4, <4>5
    <3> QED
      BY <3>1, <3>2
  <2>5. AnswersTrue'
    BY <2>1, <2>3 DEF AnswersTrue
  <2> QED
    BY <2>2, <2>4, <2>5
<1>7. CASE ApiConflicts(r)
  <2>1. /\ next' = [next EXCEPT ![r] = @ - 1] /\ attempt' = [attempt EXCEPT ![r] = @ + 1]
        /\ attempt[r] < Attempts /\ calls[next[r]] = "update"
        /\ UNCHANGED <<bundle, swaps, holders, pending, phase, tool, took, lost, wrote, answer>>
    BY <1>7 DEF ApiConflicts, ApiCall, calls
  <2>2. next[r] - 1 \in 1 .. 4
    BY <1>2, <1>3, <2>1 DEF WellFormed
  <2>3. (McpTypeOK /\ Kinds /\ Locked /\ Untouched /\ Answered)'
    <3>1. McpTypeOK'
      <4>1. next[r] - 1 \in 1 .. 5 /\ attempt[r] + 1 \in 1 .. Attempts
        BY <2>1, <2>2
      <4>2. /\ next' \in [ToolCalls -> 1 .. 5]
            /\ attempt' \in [ToolCalls -> 1 .. Attempts]
        BY <2>1, <4>1
      <4> QED
        BY <2>1, <4>2
    <3>2. (Kinds /\ Locked /\ Untouched /\ Answered)'
      BY <1>1, <2>1, <2>2
    <3> QED
      BY <3>1, <3>2
  <2>4. Progress'
    <3> SUFFICES ASSUME NEW s \in ToolCalls, phase[s] = "calling"
                 PROVE  /\ next'[s] <= Len(tool[s].calls) + 1
                        /\ \A i \in 1 .. next'[s] - 1 : Written(s, i)
                        /\ \A i \in lost[s] : tool[s].calls[i] \in Tolerated
      BY <2>1 DEF Progress, Written
    <3>1. CASE s # r
      BY <2>1, <3>1 DEF Progress
    <3>2. CASE s = r
      <4>1. next'[r] = next[r] - 1
        BY <2>1
      <4> HIDE DEF McpInv, McpTypeOK, Kinds, Locked, Untouched, Answered
      <4>2. next'[r] <= Len(calls) + 1
        BY <1>1, <1>3, <4>1
      <4>3. \A i \in 1 .. next'[r] - 1 : Written(r, i)'
        BY <1>5, <2>1, <2>2, <4>1 DEF Written
      <4>4. \A i \in lost'[r] : tool'[r].calls[i] \in Tolerated
        BY <1>4, <2>1 DEF calls
      <4> QED
        BY <2>1, <3>2, <4>2, <4>3, <4>4 DEF Written, calls
    <3> QED
      BY <3>1, <3>2
  <2>5. AnswersTrue'
    BY <2>1 DEF AnswersTrue
  <2> QED
    BY <2>3, <2>4, <2>5
<1>8. CASE ApiFails(r)
  <2>1. /\ wrote \subseteq wrote'
        /\ wrote' \subseteq wrote \cup {[call |-> r, at |-> next[r], on |-> took[r]]}
        /\ lost' = [lost EXCEPT ![r] = @ \cup {next[r]}]
        /\ UNCHANGED <<bundle, swaps, pending, tool, took, attempt>>
    BY <1>8 DEF ApiFails, CarriedOut
  <2>2. CASE Ending(r)
    <3>1. /\ phase' = [phase EXCEPT ![r] = "done"]
          /\ answer' = [answer EXCEPT ![r] = "error"]
          /\ holders' = holders \ {r} /\ next' = next
      BY <1>8, <2>2 DEF ApiFails, End
    <3>2. (McpTypeOK /\ Kinds /\ Locked /\ Untouched /\ Answered)'
      BY <1>1, <1>3, <2>1, <3>1
    <3>3. Progress'
      <4>1. ASSUME NEW s \in ToolCalls, phase'[s] = "calling"
            PROVE  s # r /\ phase[s] = "calling" /\ lost'[s] = lost[s]
        BY <1>1, <2>1, <3>1, <4>1
      <4>2. \A s, i : Written(s, i) => Written(s, i)'
        BY <2>1 DEF Written
      <4> QED
        BY <2>1, <3>1, <4>1, <4>2 DEF Progress
    <3>4. AnswersTrue'
      <4>1. ASSUME NEW s \in ToolCalls, answer'[s] = "ok"
            PROVE  s # r /\ answer[s] = "ok" /\ lost'[s] = lost[s] /\ tool' = tool
        BY <2>1, <3>1, <4>1
      <4> QED
        BY <2>1, <4>1 DEF AnswersTrue
    <3> QED
      BY <3>2, <3>3, <3>4
  <2>3. CASE ~Ending(r)
    <3>1. /\ next' = [next EXCEPT ![r] = @ + 1]
          /\ UNCHANGED <<phase, answer, holders>>
      BY <1>8, <2>3 DEF ApiFails
    <3>2. calls[next[r]] \in Tolerated
      BY <2>3 DEF Ending, ApiCall, calls
    <3>3. (McpTypeOK /\ Kinds /\ Locked /\ Untouched /\ Answered)'
      BY <1>1, <1>3, <2>1, <3>1
    <3>4. Progress'
      <4> SUFFICES ASSUME NEW s \in ToolCalls, phase[s] = "calling"
                   PROVE  /\ next'[s] <= Len(tool[s].calls) + 1
                          /\ \A i \in 1 .. next'[s] - 1 : Written(s, i)'
                          /\ \A i \in lost'[s] : tool[s].calls[i] \in Tolerated
        BY <2>1, <3>1 DEF Progress
      <4>1. CASE s # r
        BY <2>1, <3>1, <4>1 DEF Progress, Written
      <4>2. CASE s = r
        <5> HIDE DEF McpInv, McpTypeOK, Kinds, Locked, Untouched, Answered
        <5>1. next'[r] = next[r] + 1 /\ lost'[r] = lost[r] \cup {next[r]}
          BY <2>1, <3>1 DEF McpInv, McpTypeOK
        <5>2. \A i \in 1 .. next[r] : Written(r, i)'
          <6>1. ASSUME NEW i, i = next[r]
                PROVE  Written(r, i)'
            BY <2>1, <3>2, <5>1, <6>1 DEF Written, Writing, Tolerated, calls
          <6>2. \A i \in 1 .. next[r] - 1 : Written(r, i)'
            BY <1>5, <2>1, <5>1, Zenon DEF Written
          <6>3. \A i \in 1 .. next[r] : i = next[r] \/ i \in 1 .. next[r] - 1
            BY <1>3
          <6> QED
            BY <6>1, <6>2, <6>3, Zenon
        <5>3. next'[r] <= Len(tool[r].calls) + 1 /\ next'[r] - 1 = next[r]
          BY <1>1, <1>3, <5>1 DEF calls
        <5>4. \A i \in lost'[r] : tool[r].calls[i] \in Tolerated
          BY <1>3, <1>4, <3>2, <5>1 DEF calls
        <5> QED
          BY <4>2, <5>2, <5>3, <5>4
      <4> QED
        BY <4>1, <4>2
    <3>5. AnswersTrue'
      BY <1>1, <2>1, <3>1 DEF AnswersTrue
    <3> QED
      BY <3>3, <3>4, <3>5
  <2> QED
    BY <2>2, <2>3
<1> QED
  BY <1>6, <1>7, <1>8 DEF ApiStep

\* The server's own steps keep it: the answer, and the way of a switch to the swap.
LEMMA OwnStepKeeps ==
  ASSUME McpInv, NEW r \in ToolCalls, OwnStep(r)
  PROVE  McpInv'
<1> USE McpAssumption DEF McpInv, McpTypeOK, Kinds, Locked, Untouched, Answered, SwitchPhases
<1>1. CASE ReturnAnswer(r)
  <2> DEFINE calls == tool[r].calls
             said  == answer'[r]
  <2>1. /\ phase[r] = "calling" /\ next[r] > Len(calls) /\ tool[r] \in ToolSet
        /\ phase' = [phase EXCEPT ![r] = "done"] /\ holders' = holders \ {r}
        /\ UNCHANGED <<bundle, swaps, pending, tool, took, next, attempt, lost, wrote>>
    BY <1>1 DEF ReturnAnswer, End
  <2>2. /\ answer' = [answer EXCEPT ![r] = said] /\ said \in {"ok", "error"}
        /\ said = "ok" => \A i \in lost[r] : calls[i] # "join"
    BY <1>1 DEF ReturnAnswer, End
  <2>3. WellFormed(calls)
    BY <2>1, ToolsWellFormed
  <2>4. Len(calls) \in 0 .. 4 /\ DOMAIN calls = 1 .. Len(calls)
    BY <2>3, LengthOfCalls
  <2> HIDE DEF said
  <2>5. (McpTypeOK /\ Kinds /\ Locked /\ Untouched /\ Answered)'
    BY <2>1, <2>2
  <2>6. Progress'
    BY <2>1, <2>2 DEF Progress, Written
  <2>7. AnswersTrue'
    <3> SUFFICES ASSUME NEW s \in ToolCalls, answer'[s] = "ok", tool[s] \notin Switches
                 PROVE  /\ \A i \in DOMAIN tool[s].calls : Written(s, i)
                        /\ \A i \in lost[s] : tool[s].calls[i] \in {"ask", "evict"}
      BY <2>1 DEF AnswersTrue, Written
    <3>1. CASE s # r
      BY <2>2, <3>1 DEF AnswersTrue, Written
    <3>2. CASE s = r
      <4>1. /\ next[r] \in 1 .. 5 /\ said = "ok"
            /\ \A i \in 1 .. next[r] - 1 : Written(r, i)
            /\ \A i \in lost[r] : calls[i] \in Tolerated
        BY <2>1, <2>2, <3>2 DEF Progress
      <4> HIDE DEF McpInv, McpTypeOK, Kinds, Locked, Untouched, Answered, calls
      <4>2. \A i \in DOMAIN calls : i \in 1 .. next[r] - 1
        BY <2>1, <2>4, <4>1
      <4>3. \A i \in lost[r] : calls[i] \in {"ask", "evict"}
        BY <2>2, <4>1 DEF Tolerated
      <4> QED
        BY <3>2, <4>1, <4>2, <4>3 DEF calls
    <3> QED
      BY <3>1, <3>2
  <2> QED
    BY <2>5, <2>6, <2>7
<1>2. CASE ReadKubeconfigPath(r) \/ InitWithContext(r) \/ CallLock(r)
  <2>1. phase[r] \in SwitchPhases /\ tool[r] \in Switches /\ answer[r] = "none"
    BY <1>2 DEF ReadKubeconfigPath, InitWithContext, CallLock
  <2>2. /\ phase' = [phase EXCEPT ![r] = phase'[r]]
        /\ phase'[r] \in {"preparing", "queued", "swapping", "done"}
        /\ holders' = holders \ {r}
        /\ UNCHANGED <<bundle, swaps, tool, took, next, attempt, lost, wrote>>
    BY <1>2 DEF ReadKubeconfigPath, InitWithContext, CallLock, End
  <2>3. /\ answer' = [answer EXCEPT ![r] = answer'[r]] /\ answer'[r] \in {"none", "error"}
        /\ answer'[r] # "none" => phase'[r] = "done"
    BY <1>2, <2>1 DEF ReadKubeconfigPath, InitWithContext, CallLock, End
  <2>4. pending' \in ToolCalls \cup {Nobody}
    BY <1>2 DEF ReadKubeconfigPath, InitWithContext, CallLock
  <2>5. (McpTypeOK /\ Kinds /\ Locked /\ Untouched /\ Answered)'
    BY <2>1, <2>2, <2>3, <2>4
  <2>6. Progress'
    BY <2>2 DEF Progress, Written
  <2>7. AnswersTrue'
    BY <2>2, <2>3 DEF AnswersTrue
  <2> QED
    BY <2>5, <2>6, <2>7
<1>3. CASE SwapBundle(r)
  <2> DEFINE waiting == {h \in ToolCalls : phase[h] = "blocked"}
  <2>1. /\ phase[r] = "swapping" /\ holders = {} /\ tool[r] \in Switches
        /\ bundle' = tool[r].target /\ pending' = Nobody /\ holders' = waiting
        /\ took' = [h \in ToolCalls |-> IF h \in waiting THEN bundle' ELSE took[h]]
        /\ phase' = [h \in ToolCalls |-> IF h \in waiting THEN Inside(tool[h])
                                         ELSE IF h = r THEN "done" ELSE phase[h]]
        /\ answer' = [answer EXCEPT ![r] = "ok"]
        /\ UNCHANGED <<swaps, tool, next, attempt, lost, wrote>>
    BY <1>3 DEF SwapBundle
  <2>2. bundle' \in McpContexts
    BY <2>1 DEF Switches
  <2>3. \A h \in waiting : /\ tool[h] \in Switches => Inside(tool[h]) = "path"
                           /\ tool[h] \notin Switches => Inside(tool[h]) = "calling"
                           /\ tool[h] \in ToolSet => tool[h] \notin Switches
    BY ToolsWellFormed DEF Inside
  <2>4. (McpTypeOK /\ Kinds /\ Locked /\ Untouched /\ Answered)'
    BY <2>1, <2>2, <2>3
  <2>5. Progress'
    BY <2>1, <2>3 DEF Progress, Written
  <2>6. AnswersTrue'
    BY <2>1 DEF AnswersTrue
  <2> QED
    BY <2>4, <2>5, <2>6
<1> QED
  BY <1>1, <1>2, <1>3 DEF OwnStep

-----------------------------------------------------------------------------
\* Every step of the server keeps the invariant.
LEMMA McpStep == McpInv /\ [McpNext]_mcpVars => McpInv'
<1> SUFFICES ASSUME McpInv, [McpNext]_mcpVars
             PROVE  McpInv'
  OBVIOUS
<1>1. ASSUME NEW r \in ToolCalls, BeginTool(r)
      PROVE  McpInv'
  <2>1. PICK t \in ToolSet : Begin(r, t) /\ UNCHANGED swaps
    BY <1>1 DEF BeginTool
  <2>2. swaps' \in 0 .. MaxSwaps
    BY <2>1 DEF McpInv, McpTypeOK
  <2> QED
    BY <2>1, <2>2, BeginStep
<1>2. ASSUME NEW r \in ToolCalls, BeginSwitch(r)
      PROVE  McpInv'
  <2>1. PICK t \in Switches : Begin(r, t)
    BY <1>2 DEF BeginSwitch
  <2>2. swaps' \in 0 .. MaxSwaps
    BY <1>2, McpAssumption DEF BeginSwitch, McpInv, McpTypeOK
  <2> QED
    BY <2>1, <2>2, BeginStep
<1>3. ASSUME NEW r \in ToolCalls, ApiStep(r) \/ OwnStep(r)
      PROVE  McpInv'
  BY <1>3, ApiStepKeeps, OwnStepKeeps
<1>4. ASSUME UNCHANGED mcpVars
      PROVE  McpInv'
  BY <1>4 DEF mcpVars, McpInv, McpTypeOK, Kinds, Locked, Untouched, Progress, Written, Answered,
              AnswersTrue
<1> QED
  BY <1>1, <1>2, <1>3, <1>4 DEF McpNext

\* In every reachable state of the server the tools under way work with the bundle in
\* place, so a switch of context never passes one by, and an answer without an error
\* was preceded by all the writes it stands for, on one cluster.
THEOREM McpHolds == McpSpec => []McpTrue
<1>1. McpInit => McpInv
  <2> SUFFICES ASSUME McpInit
               PROVE  McpInv
    OBVIOUS
  <2>1. bundle \in McpContexts
    BY McpAssumption DEF McpInit
  <2> QED
    BY <2>1, McpAssumption
       DEF McpInit, McpInv, McpTypeOK, Kinds, Locked, Untouched, Progress, Answered, AnswersTrue,
           SwitchPhases
<1>2. McpInv => McpTrue
  BY DEF McpInv, McpTrue, Locked, CallsReachServed
<1> QED
  BY <1>1, <1>2, McpStep, PTL DEF McpSpec

(***************************************************************************)
(* The rows of port forwards                                               *)
(***************************************************************************)

-----------------------------------------------------------------------------
(* The events on their way to a row: at most two.                          *)

Up      == <<"ready">>
Denied == <<"error">>
Over    == <<"exit">>
UpOver  == Append(Up, "exit")

EventLists == {<<>>, Up, Denied, Over, UpOver}

Events == {"ready", "error", "exit"}

\* Sending the first event.
LEMMA EventsSent ==
  Append(<<>>, "ready") = Up /\ Append(<<>>, "error") = Denied /\ Append(<<>>, "exit") = Over
BY DEF Up, Denied, Over

\* Taking the first event from a list.
LEMMA EventsHeard ==
  /\ Head(Up) = "ready" /\ Tail(Up) = <<>>
  /\ Head(Denied) = "error" /\ Tail(Denied) = <<>>
  /\ Head(Over) = "exit" /\ Tail(Over) = <<>>
  /\ Head(UpOver) = "ready" /\ Tail(UpOver) = Over
<1>1. /\ Head(Up) = "ready" /\ Tail(Up) = <<>>
      /\ Head(Denied) = "error" /\ Tail(Denied) = <<>>
      /\ Head(Over) = "exit" /\ Tail(Over) = <<>>
  BY DEF Up, Denied, Over
<1>2. Up \in Seq(Events) /\ Up # <<>>
  BY DEF Up, Events
<1>3. Head(UpOver) = Head(Up) /\ Tail(UpOver) = Append(Tail(Up), "exit")
  BY <1>2, HeadTailAppend, Zenon DEF UpOver
<1> QED
  BY <1>1, <1>3, EventsSent

\* The lists are of at most two events.
LEMMA EventListsLength ==
  /\ EventLists \subseteq Seq(Events)
  /\ Len(Up) = 1 /\ Len(Denied) = 1 /\ Len(Over) = 1 /\ Len(UpOver) = 2
<1>1. /\ <<>> \in Seq(Events) /\ Up \in Seq(Events) /\ Denied \in Seq(Events)
      /\ Over \in Seq(Events)
      /\ Len(Up) = 1 /\ Len(Denied) = 1 /\ Len(Over) = 1
  BY DEF Up, Denied, Over, Events
<1>2. UpOver \in Seq(Events) /\ Len(UpOver) = 2
  <2>1. Up \in Seq(Events) /\ "exit" \in Events
    BY <1>1 DEF Events
  <2>2. /\ Append(Up, "exit") \in Seq(Events)
        /\ Len(Append(Up, "exit")) = Len(Up) + 1
    BY <2>1, AppendProperties, Zenon
  <2> QED
    BY <1>1, <2>2 DEF UpOver
<1> QED
  BY <1>1, <1>2 DEF EventLists

\* No list is mistaken for another.
LEMMA EventsDiffer ==
  /\ <<>> \notin {Up, Denied, Over, UpOver}
  /\ Up \notin {Denied, Over, UpOver}
  /\ Denied \notin {Over, UpOver}
  /\ Over # UpOver
<1>1. Len(<<>>) = 0
  OBVIOUS
<1>2. Head(Up) = "ready" /\ Head(Denied) = "error" /\ Head(Over) = "exit"
  BY EventsHeard
<1> QED
  BY <1>1, <1>2, EventListsLength

\* The types, with the lists of events there can be.
PathTypeOK ==
  /\ row \in [Forwards -> {"none", "starting", "active", "error", "gone"}]
  /\ heard \subseteq Forwards
  /\ asked \in [Forwards -> SUBSET {"start", "stop"}]
  /\ pend \subseteq Forwards /\ timer \subseteq Forwards
  /\ events \in [Forwards -> EventLists]
  /\ request \in [Forwards -> {"none", "sent", "waiting", "ok", "refused", "done"}]
  /\ resent \subseteq Forwards /\ overtaken \subseteq Forwards
  /\ stopping \in [Forwards -> {"none", "sent", "done"}]
  /\ poll \in [Forwards -> {"none", "sent", "alive", "dead"}]
  /\ entry \in [Forwards -> {"none", "opening", "up"}]
  /\ stopAlls \in 0..MaxStopAlls

-----------------------------------------------------------------------------
(* The invariant of one forward.                                           *)

\* Nothing is known of an id before its row; a start is asked for with the row.
Fresh(f) ==
  /\ row[f] = "none" => asked[f] = {} /\ f \notin resent
  /\ row[f] = "none" \/ "start" \in asked[f] <=> request[f] = "none"

\* A row listens until it has ended; whatever stops it has made it go.
Listening(f) ==
  /\ f \in heard <=> row[f] \in {"starting", "active"}
  /\ "stop" \in asked[f] \/ stopping[f] # "none" \/ f \in pend => row[f] = "gone"
  /\ stopping[f] # "none" => asked[f] = {}

\* Before its start is answered a row has had no event and is not polled.
Unanswered(f) ==
  request[f] # "done" =>
     /\ events[f] = <<>> /\ f \notin timer /\ poll[f] = "none"
     /\ row[f] \in {"none", "starting", "gone"}
     /\ stopping[f] # "none" => f \in pend

\* A forward that is polled is active, or will be when its event is heard, or will
\* not be polled when its stop is handled.
Polled(f) ==
  f \in timer =>
     \/ row[f] = "starting" /\ events[f] = Up
     \/ row[f] = "active" /\ events[f] = <<>>
     \/ row[f] = "gone" /\ "stop" \in asked[f] /\ events[f] \in {<<>>, Up}

\* A row whose start was answered hears of it, and an active one is polled or
\* hears of its end.
Told(f) ==
  /\ row[f] = "starting" /\ request[f] = "done" =>
        events[f] \in {Up, Denied, UpOver}
  /\ row[f] = "starting" /\ events[f] = Up => f \in timer
  /\ row[f] = "active" => f \in timer \/ events[f] = Over
  /\ row[f] = "error" => events[f] = <<>>
  /\ events[f] \in {Denied, Over, UpOver} => f \notin timer /\ poll[f] = "none"
  /\ poll[f] # "none" => f \in timer \/ row[f] = "gone"
  /\ row[f] = "gone" /\ stopping[f] = "none" /\ "stop" \notin asked[f] =>
        events[f] = <<>> /\ poll[f] = "none"

\* When the manager has no entry.
Closed(f) ==
  /\ stopping[f] = "done" /\ f \notin overtaken => entry[f] = "none"
  /\ poll[f] = "dead" \/ events[f] \in {Over, UpOver} => entry[f] = "none"
  /\ row[f] = "gone" /\ stopping[f] = "none" /\ "stop" \notin asked[f] =>
        entry[f] = "none" /\ request[f] = "done"
  /\ f \notin resent =>
        /\ request[f] \in {"none", "sent", "refused"} => entry[f] = "none"
        /\ row[f] = "error" \/ events[f] = Denied => entry[f] = "none"
        /\ entry[f] = "opening" => request[f] = "waiting"

ForwardInv(f) == Fresh(f) /\ Listening(f) /\ Unanswered(f) /\ Polled(f) /\ Told(f) /\ Closed(f)

PathInv == PathTypeOK /\ \A f \in Forwards : ForwardInv(f)

-----------------------------------------------------------------------------
\* Every step of the renderer, the main process, the connection and the sidecar keeps
\* the invariant of every forward.
LEMMA PathStep == PathInv /\ [FwdNext]_fwdVars => PathInv'
<1> SUFFICES ASSUME PathInv, [FwdNext]_fwdVars
             PROVE  PathInv'
  OBVIOUS
<1>a USE ForwardAssumption, EventsDiffer
     DEF PathInv, PathTypeOK, ForwardInv, Fresh, Listening, Unanswered, Polled, Told, Closed
<1>1. ASSUME NEW f \in Forwards, StartPortForward(f) PROVE PathInv'
  BY <1>1 DEF StartPortForward
<1>2. ASSUME NEW f \in Forwards, StopPortForward(f) PROVE PathInv'
  BY <1>2 DEF StopPortForward
<1>3. ASSUME NEW f \in Forwards, HandleStart(f) PROVE PathInv'
  BY <1>3 DEF HandleStart
<1>4. ASSUME NEW f \in Forwards, HandleStop(f) PROVE PathInv'
  BY <1>4 DEF HandleStop
<1>5. ASSUME NEW f \in Forwards, PendExpires(f) PROVE PathInv'
  BY <1>5 DEF PendExpires
<1>6. ASSUME NEW f \in Forwards, PollAlive(f) PROVE PathInv'
  BY <1>6 DEF PollAlive
<1>7. ASSUME NEW f \in Forwards, Resend(f) PROVE PathInv'
  BY <1>7 DEF Resend
<1>8. ASSUME NEW f \in Forwards, Admit(f) PROVE PathInv'
  BY <1>8 DEF Admit
<1>9. ASSUME NEW f \in Forwards, Opens(f) PROVE PathInv'
  BY <1>9 DEF Opens, Answer
<1>10. ASSUME NEW f \in Forwards, OpenFails(f) PROVE PathInv'
  BY <1>10 DEF OpenFails, Answer
<1>11. ASSUME NEW f \in Forwards, StopReaches(f) PROVE PathInv'
  BY <1>11 DEF StopReaches
<1>12. ASSUME NEW f \in Forwards, ForwardEnds(f) PROVE PathInv'
  BY <1>12 DEF ForwardEnds
<1>13. ASSUME NEW f \in Forwards, AnswerPoll(f) PROVE PathInv'
  BY <1>13 DEF AnswerPoll
<1>14. ASSUME NEW f \in Forwards, HandleStop(f) PROVE PathInv'
  BY <1>14 DEF HandleStop
<1>15. ASSUME NEW f \in Forwards, AnswerOk(f) PROVE PathInv'
  <2>1. events[f] = <<>> /\ f \notin timer /\ poll[f] = "none" /\ row[f] \in {"starting", "gone"}
    BY <1>15 DEF AnswerOk
  <2>2. CASE f \in pend
    BY <1>15, <2>1, <2>2 DEF AnswerOk
  <2>3. CASE f \notin pend
    <3>1. /\ events' = [events EXCEPT ![f] = Up] /\ Up \in EventLists
          /\ timer' = timer \cup {f} /\ request' = [request EXCEPT ![f] = "done"]
          /\ UNCHANGED <<row, heard, asked, pend, resent, stopping, poll, entry, stopAlls,
                         overtaken>>
      BY <1>15, <2>1, <2>3, EventsSent DEF AnswerOk, Send, EventLists
    <3> QED
      BY <1>15, <2>1, <2>3, <3>1 DEF AnswerOk
  <2> QED
    BY <2>2, <2>3
<1>16. ASSUME NEW f \in Forwards, AnswerRefused(f) PROVE PathInv'
  BY <1>16, EventsSent, EventsHeard, EventsDiffer DEF AnswerRefused, Send, EventLists
<1>17. ASSUME NEW f \in Forwards, PollAnswered(f) PROVE PathInv'
  <2>1. events[f] \in {<<>>, Up} /\ request[f] = "done"
    BY <1>17 DEF PollAnswered, EventLists
  <2>2. CASE poll[f] = "dead"
    <3>1. /\ events' = [events EXCEPT ![f] = events'[f]]
          /\ events'[f] = IF events[f] = Up THEN UpOver ELSE Over
          /\ events'[f] \in EventLists
          /\ timer' = timer \ {f} /\ poll' = [poll EXCEPT ![f] = "none"]
          /\ UNCHANGED <<row, heard, asked, pend, request, resent, stopping, entry, stopAlls,
                         overtaken>>
      BY <1>17, <2>1, <2>2, EventsSent DEF PollAnswered, Send, EventLists, UpOver
    <3> QED
      BY <2>1, <2>2, <3>1
  <2>3. CASE poll[f] # "dead"
    BY <1>17, <2>3 DEF PollAnswered
  <2> QED
    BY <2>2, <2>3
<1>18. ASSUME NEW f \in Forwards, HearEvent(f) PROVE PathInv'
  <2>1. /\ events[f] \in {Up, Denied, Over, UpOver} /\ request[f] = "done"
        /\ events' = [events EXCEPT ![f] = Tail(@)]
        /\ UNCHANGED <<asked, pend, timer, request, resent, stopping, poll, entry, stopAlls,
                       overtaken>>
    BY <1>18 DEF HearEvent, EventLists
  <2>2. /\ events' = [events EXCEPT ![f] = events'[f]]
        /\ events[f] = UpOver => events'[f] = Over
        /\ events[f] # UpOver => events'[f] = <<>>
    <3>1. events' = [events EXCEPT ![f] = events'[f]] /\ events'[f] = Tail(events[f])
      BY <2>1
    <3>2. events[f] = UpOver => events'[f] = Over
      BY <3>1, EventsHeard, Zenon
    <3>3. events[f] # UpOver => events'[f] = <<>>
      BY <2>1, <3>1, EventsHeard, Zenon
    <3> QED
      BY <3>1, <3>2, <3>3
  <2>3. /\ row' = [row EXCEPT ![f] = row'[f]]
        /\ heard' \in {heard, heard \ {f}}
        /\ f \notin heard => row'[f] = row[f] /\ f \notin heard'
        /\ f \in heard /\ events[f] \in {Up, UpOver} => row'[f] = "active" /\ f \in heard'
        /\ f \in heard /\ events[f] = Denied => row'[f] = "error" /\ f \notin heard'
        /\ f \in heard /\ events[f] = Over => row'[f] = "gone" /\ f \notin heard'
    <3>1. CASE f \notin heard
      BY <1>18, <3>1 DEF HearEvent
    <3>2. CASE f \in heard /\ events[f] \in {Up, UpOver}
      <4>1. row' = [row EXCEPT ![f] = "active"] /\ heard' = heard
        BY <1>18, <3>2, EventsHeard DEF HearEvent
      <4> QED
        BY <3>2, <4>1
    <3>3. CASE f \in heard /\ events[f] = Denied
      <4>1. row' = [row EXCEPT ![f] = "error"] /\ heard' = heard \ {f}
        BY <1>18, <3>3, EventsHeard DEF HearEvent
      <4> QED
        BY <3>3, <4>1
    <3>4. CASE f \in heard /\ events[f] = Over
      <4>1. row' = [row EXCEPT ![f] = "gone"] /\ heard' = heard \ {f}
        BY <1>18, <3>4, EventsHeard DEF HearEvent
      <4> QED
        BY <3>4, <4>1
    <3> QED
      BY <2>1, <3>1, <3>2, <3>3, <3>4
  <2>4. PathTypeOK'
    <3>1. events'[f] \in EventLists /\ row'[f] \in {"none", "starting", "active", "error", "gone"}
      BY <2>1, <2>2, <2>3 DEF EventLists
    <3> QED
      BY <2>1, <2>2, <2>3, <3>1
  <2>5. ForwardInv(f)'
    BY <2>1, <2>2, <2>3
  <2>6. ASSUME NEW g \in Forwards, g # f
        PROVE  ForwardInv(g)'
    <3>1. /\ row'[g] = row[g] /\ events'[g] = events[g] /\ (g \in heard' <=> g \in heard)
      BY <2>2, <2>3, <2>6
    <3> QED
      BY <2>1, <3>1
  <2> HIDE DEF PathTypeOK, ForwardInv
  <2> QED
    BY <2>4, <2>5, <2>6 DEF PathInv
<1>19. ASSUME StopAllForwards PROVE PathInv'
  BY <1>19 DEF StopAllForwards
<1>20. ASSUME UNCHANGED fwdVars PROVE PathInv'
  BY <1>20 DEF fwdVars
<1> QED
  BY <1>1, <1>2, <1>3, <1>4, <1>5, <1>6, <1>7, <1>8, <1>9, <1>10, <1>11, <1>12, <1>13, <1>14,
     <1>15, <1>16, <1>17, <1>18, <1>19, <1>20 DEF FwdNext

-----------------------------------------------------------------------------
\* In every reachable state: when nothing is on its way for a forward, it is polled if
\* and only if its row is active, and a tunnel that is up has its active row, but for
\* the forwards whose stop came before their start or whose start was sent twice.
THEOREM PathHolds == FwdSpec => []PathTrue
<1>1. FwdInit => PathInv
  BY ForwardAssumption, EventsDiffer
     DEF FwdInit, PathInv, PathTypeOK, EventLists, ForwardInv, Fresh, Listening, Unanswered, Polled,
         Told, Closed
<1>2. PathInv => PathTrue
  <2> SUFFICES ASSUME PathInv
               PROVE  PathTrue
    OBVIOUS
  <2>1. FwdTypeOK
    <3>1. PathTypeOK
      BY DEF PathInv
    <3>2. EventLists \subseteq Seq({"ready", "error", "exit"}) /\ \A l \in EventLists : Len(l) <= 2
      <4>1. /\ Len(<<>>) <= 2 /\ Len(Up) <= 2 /\ Len(Denied) <= 2 /\ Len(Over) <= 2
            /\ Len(UpOver) <= 2
        BY EventListsLength
      <4> QED
        BY <4>1, EventListsLength, Zenon DEF EventLists, Events
    <3>3. /\ events \in [Forwards -> Seq({"ready", "error", "exit"})]
          /\ \A f \in Forwards : Len(events[f]) <= 2
      BY <3>1, <3>2 DEF PathTypeOK
    <3> QED
      BY <3>1, <3>3 DEF PathTypeOK, FwdTypeOK
  <2>2. RowsShowTunnels
    BY EventsDiffer
       DEF PathInv, PathTypeOK, ForwardInv, Fresh, Listening, Unanswered, Polled, Told, Closed,
           RowsShowTunnels, Settled
  <2> QED
    BY <2>1, <2>2 DEF PathTrue
<1> QED
  BY <1>1, <1>2, PathStep, PTL DEF FwdSpec

(***************************************************************************)
(* The port-forward manager, for any ids, calls and contexts               *)
(***************************************************************************)

-----------------------------------------------------------------------------
(* Type correctness.                                                       *)

LEMMA CloseAndDeleteType ==
  ASSUME TypeOK, NEW ids \in SUBSET Ids, CloseAndDelete(ids)
  PROVE  /\ forwards' \in [Ids -> Calls \cup {Nil}]
         /\ closed' \subseteq Calls
BY DEF TypeOK, CloseAndDelete, Registered

\* Every reachable state has values of the declared types: in particular the
\* manager closes channels of requests only, never the nil of a missing entry.
THEOREM ForwardsTyped == Spec => []TypeOK
<1>1. Init => TypeOK
  BY ConstantsAssumption DEF Init, TypeOK, CallStates, TunnelStates
<1>2. TypeOK /\ [Next]_vars => TypeOK'
  <2> SUFFICES ASSUME TypeOK, [Next]_vars
               PROVE  TypeOK'
    OBVIOUS
  <2> USE DEF TypeOK, CallStates, TunnelStates
  <2>1. ASSUME NEW r \in Calls, NEW id \in Ids, StartForward(r, id)
        PROVE  TypeOK'
    BY <2>1 DEF StartForward, tunnelVars
  <2>2. ASSUME NEW r \in Calls, NEW id \in Ids, RefuseForward(r, id)
        PROVE  TypeOK'
    BY <2>2 DEF RefuseForward, managerVars, tunnelVars
  <2>3. ASSUME NEW r \in Calls, ReturnReady(r)
        PROVE  TypeOK'
    BY <2>3 DEF ReturnReady, managerVars, tunnelVars
  <2>4. ASSUME NEW r \in Calls, ReturnError(r)
        PROVE  TypeOK'
    BY <2>4 DEF ReturnError, tunnelVars
  <2>5. ASSUME NEW r \in Calls, ReturnTimeout(r)
        PROVE  TypeOK'
    <3>1. /\ forwards' \in [Ids -> Calls \cup {Nil}]
          /\ closed' \subseteq Calls
      BY <2>5 DEF ReturnTimeout, CloseAndDelete, Registered
    <3> QED
      BY <2>5, <3>1 DEF ReturnTimeout, tunnelVars
  <2>6. ASSUME NEW r \in Calls, Tunnel(r)
        PROVE  TypeOK'
    BY <2>6 DEF Tunnel, TunnelUp, TunnelFails, TunnelEnds, CleanUp,
                managerVars, callVars
  <2>7. ASSUME NEW id \in Ids, StopForward(id)
        PROVE  TypeOK'
    BY <2>7, CloseAndDeleteType DEF StopForward, callVars, tunnelVars
  <2>8. ASSUME NEW s \in Switchers, StopAll(s)
        PROVE  TypeOK'
    BY <2>8, CloseAndDeleteType DEF StopAll, callVars, tunnelVars
  <2>9. ASSUME NEW s \in Switchers, NEW c \in Contexts, UpdateClients(s, c)
        PROVE  TypeOK'
    BY <2>9 DEF UpdateClients, callVars, tunnelVars
  <2>10. ASSUME NEW c \in Contexts, FirstClients(c)
         PROVE  TypeOK'
    BY <2>10 DEF FirstClients, callVars, tunnelVars
  <2>11. ASSUME UNCHANGED vars
         PROVE  TypeOK'
    BY <2>11 DEF vars, managerVars, callVars, tunnelVars
  <2> QED
    BY <2>1, <2>2, <2>3, <2>4, <2>5, <2>6, <2>7, <2>8, <2>9, <2>10, <2>11
       DEF Next, Return
<1> QED
  BY <1>1, <1>2, PTL DEF Spec

-----------------------------------------------------------------------------
(* Entries own open channels.                                              *)

\* An entry is the request started under its id, its channel is open, and a
\* request that was never admitted has neither tunnel nor closed channel.
Ownership ==
  /\ \A id \in Ids : forwards[id] # Nil =>
       /\ idOf[forwards[id]] = id
       /\ forwards[id] \notin closed
  /\ \A r \in Calls : pc[r] \in {"idle", "refused"} =>
       /\ tunnel[r] = "none" /\ r \notin closed
       /\ \A id \in Ids : forwards[id] # r
  /\ \A r \in Calls : pc[r] # "idle" => idOf[r] \in Ids

OwnInv == TypeOK /\ Ownership

LEMMA CloseKeepsOwnership ==
  ASSUME OwnInv, NEW ids \in SUBSET Ids, CloseAndDelete(ids), TypeOK',
         UNCHANGED <<idOf, tunnel>>,
         \A r \in Calls : pc'[r] \in {"idle", "refused"} => pc'[r] = pc[r],
         \A r \in Calls : pc'[r] # "idle" => pc[r] # "idle"
  PROVE  Ownership'
<1> USE ConstantsAssumption DEF OwnInv, Ownership, TypeOK, CloseAndDelete, Registered
<1>1. \A id \in Ids : forwards'[id] # Nil =>
         /\ idOf'[forwards'[id]] = id
         /\ forwards'[id] \notin closed'
  <2> SUFFICES ASSUME NEW id \in Ids, forwards'[id] # Nil
               PROVE  /\ idOf'[forwards'[id]] = id
                      /\ forwards'[id] \notin closed'
    OBVIOUS
  <2>1. id \notin ids /\ forwards'[id] = forwards[id]
    OBVIOUS
  <2>2. \A j \in ids : forwards[j] # Nil => forwards[j] # forwards[id]
    BY <2>1
  <2> QED
    BY <2>1, <2>2
<1>2. \A r \in Calls : pc'[r] \in {"idle", "refused"} =>
         /\ tunnel'[r] = "none" /\ r \notin closed'
         /\ \A id \in Ids : forwards'[id] # r
  OBVIOUS
<1>3. \A r \in Calls : pc'[r] # "idle" => idOf'[r] \in Ids
  OBVIOUS
<1> QED
  BY <1>1, <1>2, <1>3

LEMMA OwnershipStep == OwnInv /\ TypeOK' /\ [Next]_vars => Ownership'
<1> SUFFICES ASSUME OwnInv, TypeOK', [Next]_vars
             PROVE  Ownership'
  OBVIOUS
<1> USE ConstantsAssumption DEF OwnInv, TypeOK, CallStates
<1>1. ASSUME NEW r \in Calls, NEW id \in Ids, StartForward(r, id)
      PROVE  Ownership'
  BY <1>1 DEF Ownership, StartForward, Admissible, Refused
<1>2. ASSUME NEW r \in Calls, NEW id \in Ids, RefuseForward(r, id)
      PROVE  Ownership'
  BY <1>2 DEF Ownership, RefuseForward, Admissible, managerVars, tunnelVars
<1>3. ASSUME NEW r \in Calls, ReturnReady(r)
      PROVE  Ownership'
  BY <1>3 DEF Ownership, ReturnReady, managerVars, tunnelVars
<1>4. ASSUME NEW r \in Calls, ReturnError(r)
      PROVE  Ownership'
  BY <1>4 DEF Ownership, ReturnError, tunnelVars
<1>5. ASSUME NEW r \in Calls, ReturnTimeout(r)
      PROVE  Ownership'
  <2>1. idOf[r] \in Ids
    BY <1>5 DEF ReturnTimeout, Ownership
  <2> QED
    BY <1>5, <2>1, CloseKeepsOwnership DEF ReturnTimeout, tunnelVars
<1>6. ASSUME NEW r \in Calls, Tunnel(r)
      PROVE  Ownership'
  BY <1>6 DEF Ownership, Tunnel, TunnelUp, TunnelFails, TunnelEnds, CleanUp,
              managerVars, callVars
<1>7. ASSUME NEW id \in Ids, StopForward(id)
      PROVE  Ownership'
  BY <1>7, CloseKeepsOwnership DEF StopForward, callVars, tunnelVars
<1>8. ASSUME NEW s \in Switchers, StopAll(s)
      PROVE  Ownership'
  BY <1>8, CloseKeepsOwnership DEF StopAll, callVars, tunnelVars
<1>9. ASSUME NEW s \in Switchers, NEW c \in Contexts, UpdateClients(s, c)
      PROVE  Ownership'
  BY <1>9 DEF Ownership, UpdateClients, callVars, tunnelVars
<1>10. ASSUME NEW c \in Contexts, FirstClients(c)
       PROVE  Ownership'
  BY <1>10 DEF Ownership, FirstClients, callVars, tunnelVars
<1>11. ASSUME UNCHANGED vars
       PROVE  Ownership'
  BY <1>11 DEF Ownership, vars, managerVars, callVars, tunnelVars
<1> QED
  BY <1>1, <1>2, <1>3, <1>4, <1>5, <1>6, <1>7, <1>8, <1>9, <1>10, <1>11
     DEF Next, Return

LEMMA OwnInvariant == Spec => []OwnInv
<1>1. Init => Ownership
  BY ConstantsAssumption DEF Init, Ownership
<1> QED
  BY <1>1, OwnershipStep, ForwardsTyped, PTL DEF Spec, OwnInv

\* Whatever ids callers choose and however switches overlap, a registered
\* request's stop channel is open, so no stop closes a channel twice.
THEOREM EntriesStayOpen == Spec => []EntriesOpen
<1>1. OwnInv => EntriesOpen
  BY DEF OwnInv, Ownership, EntriesOpen, Registered
<1> QED
  BY <1>1, OwnInvariant, PTL

-----------------------------------------------------------------------------
(* With ids that are never reused, every live tunnel can be stopped.       *)

DistinctIds ==
  \A r, q \in Calls : idOf[r] # Nil /\ idOf[r] = idOf[q] => r = q

IdleHasNoId == \A r \in Calls : pc[r] = "idle" => idOf[r] = Nil

LiveInv == OwnInv /\ DistinctIds /\ IdleHasNoId /\ LiveIsStoppable

LEMMA DistinctIdsStep ==
  UniqueIds /\ OwnInv /\ DistinctIds /\ IdleHasNoId /\ [Next]_vars
    => DistinctIds' /\ IdleHasNoId'
<1> SUFFICES ASSUME UniqueIds, OwnInv, DistinctIds, IdleHasNoId, [Next]_vars
             PROVE  DistinctIds' /\ IdleHasNoId'
  OBVIOUS
<1> USE DEF OwnInv, TypeOK, DistinctIds, IdleHasNoId
<1>1. ASSUME NEW r \in Calls, NEW id \in Ids,
             StartForward(r, id) \/ RefuseForward(r, id)
      PROVE  DistinctIds' /\ IdleHasNoId'
  <2>1. /\ idOf' = [idOf EXCEPT ![r] = id]
        /\ pc'[r] # "idle" /\ \A q \in Calls \ {r} : pc'[q] = pc[q]
        /\ \A q \in Calls : idOf[q] # id
    BY <1>1 DEF StartForward, RefuseForward, Admissible, CallStates
  <2> QED
    BY <2>1
<1>2. ASSUME UNCHANGED <<idOf, pc>>
      PROVE  DistinctIds' /\ IdleHasNoId'
  BY <1>2
<1>3. ASSUME NEW r \in Calls, Return(r)
      PROVE  DistinctIds' /\ IdleHasNoId'
  BY <1>3 DEF Return, ReturnReady, ReturnError, ReturnTimeout
<1> QED
  BY <1>1, <1>2, <1>3
     DEF Next, Tunnel, TunnelUp, TunnelFails, TunnelEnds, CleanUp, StopForward,
         StopAll, UpdateClients, FirstClients, callVars, vars

LEMMA LiveStep ==
  LiveInv /\ TypeOK' /\ [Next]_vars => LiveIsStoppable'
<1> SUFFICES ASSUME LiveInv, TypeOK', [Next]_vars
             PROVE  LiveIsStoppable'
  OBVIOUS
<1> USE ConstantsAssumption
    DEF LiveInv, OwnInv, TypeOK, LiveIsStoppable, Live
<1>1. ASSUME NEW r \in Calls, NEW id \in Ids, StartForward(r, id)
      PROVE  LiveIsStoppable'
  BY <1>1 DEF StartForward, Admissible, Refused, Ownership
<1>2. ASSUME NEW r \in Calls, NEW id \in Ids, RefuseForward(r, id)
      PROVE  LiveIsStoppable'
  BY <1>2 DEF RefuseForward, Admissible, Ownership, managerVars, tunnelVars
<1>3. ASSUME NEW r \in Calls, ReturnReady(r)
      PROVE  LiveIsStoppable'
  BY <1>3 DEF ReturnReady, managerVars, tunnelVars
<1>4. ASSUME NEW r \in Calls, ReturnError(r)
      PROVE  LiveIsStoppable'
  BY <1>4 DEF ReturnError, ErrorSent, DistinctIds, Ownership, tunnelVars
<1>5. ASSUME NEW ids \in SUBSET Ids, CloseAndDelete(ids), UNCHANGED <<idOf, tunnel>>
      PROVE  LiveIsStoppable'
  BY <1>5 DEF CloseAndDelete, Registered, Ownership
<1>6. ASSUME NEW r \in Calls, ReturnTimeout(r)
      PROVE  LiveIsStoppable'
  <2>1. {idOf[r]} \in SUBSET Ids
    BY <1>6 DEF ReturnTimeout, Ownership
  <2> QED
    BY <1>5, <1>6, <2>1 DEF ReturnTimeout, tunnelVars
<1>7. ASSUME NEW r \in Calls, Tunnel(r)
      PROVE  LiveIsStoppable'
  BY <1>7 DEF Tunnel, TunnelUp, TunnelFails, TunnelEnds, CleanUp, Ownership,
              managerVars, callVars
<1>8. ASSUME NEW id \in Ids, StopForward(id)
      PROVE  LiveIsStoppable'
  BY <1>5, <1>8 DEF StopForward, callVars, tunnelVars
<1>9. ASSUME NEW s \in Switchers, StopAll(s)
      PROVE  LiveIsStoppable'
  BY <1>5, <1>9 DEF StopAll, callVars, tunnelVars
<1>10. ASSUME UNCHANGED <<forwards, closed, callVars, tunnelVars>>
       PROVE  LiveIsStoppable'
  BY <1>10 DEF callVars, tunnelVars
<1> QED
  BY <1>1, <1>2, <1>3, <1>4, <1>6, <1>7, <1>8, <1>9, <1>10
     DEF Next, Return, UpdateClients, FirstClients, vars, managerVars

\* If no caller reuses an id (the user interface draws UUIDs), every tunnel
\* that has not been told to stop is registered: StopAll reaches it.
THEOREM LiveStaysStoppable == UniqueIds => (Spec => []LiveIsStoppable)
<1> SUFFICES ASSUME UniqueIds
             PROVE  Spec => []LiveIsStoppable
  OBVIOUS
<1>1. Init => DistinctIds /\ IdleHasNoId /\ LiveIsStoppable
  BY DEF Init, DistinctIds, IdleHasNoId, LiveIsStoppable, Live
<1>2. OwnInv /\ OwnInv' /\ DistinctIds /\ IdleHasNoId /\ LiveIsStoppable /\ [Next]_vars
        => DistinctIds' /\ IdleHasNoId' /\ LiveIsStoppable'
  BY DistinctIdsStep, LiveStep DEF LiveInv, OwnInv
<1> QED
  BY <1>1, <1>2, OwnInvariant, PTL DEF Spec

-----------------------------------------------------------------------------
(* One switch at a time: no tunnel of the context being left.              *)

GateInv ==
  /\ TypeOK /\ EntryOnCurrentContext /\ GateHolds
  /\ switching # {} => stopped
  /\ config = Nil => Registered = {}

LEMMA GateStep ==
  ASSUME NEW s, Switchers = {s}
  PROVE  OwnInv /\ GateInv /\ TypeOK' /\ [Next]_vars => GateInv'
<1> SUFFICES ASSUME OwnInv, GateInv, TypeOK', [Next]_vars
             PROVE  GateInv'
  OBVIOUS
<1> USE ConstantsAssumption
    DEF GateInv, TypeOK, EntryOnCurrentContext, GateHolds, Registered
<1>1. ASSUME NEW r \in Calls, NEW id \in Ids, StartForward(r, id)
      PROVE  GateInv'
  BY <1>1 DEF StartForward, Admissible, Refused, OwnInv, Ownership
<1>2. ASSUME UNCHANGED <<config, stopped, configOf, switching>>,
             \A id \in Ids : forwards'[id] \in {forwards[id], Nil}
      PROVE  GateInv'
  BY <1>2
<1>3. ASSUME NEW r \in Calls, NEW id \in Ids, RefuseForward(r, id)
      PROVE  GateInv'
  BY <1>2, <1>3 DEF RefuseForward, managerVars
<1>4. ASSUME NEW r \in Calls, Return(r)
      PROVE  GateInv'
  BY <1>2, <1>4 DEF Return, ReturnReady, ReturnError, ReturnTimeout,
                    CloseAndDelete, managerVars
<1>5. ASSUME NEW r \in Calls, Tunnel(r)
      PROVE  GateInv'
  BY <1>2, <1>5 DEF Tunnel, TunnelUp, TunnelFails, TunnelEnds, CleanUp,
                    managerVars, callVars
<1>6. ASSUME NEW id \in Ids, StopForward(id)
      PROVE  GateInv'
  BY <1>2, <1>6 DEF StopForward, CloseAndDelete, callVars
<1>7. ASSUME StopAll(s)
      PROVE  GateInv'
  BY <1>7 DEF StopAll, CloseAndDelete, callVars
<1>8. ASSUME NEW c \in Contexts, UpdateClients(s, c)
      PROVE  GateInv'
  <2>1. Registered = {} /\ switching' = {}
    BY <1>8 DEF UpdateClients
  <2> QED
    BY <1>8, <2>1 DEF UpdateClients, callVars
<1>9. ASSUME NEW c \in Contexts, FirstClients(c)
      PROVE  GateInv'
  BY <1>9 DEF FirstClients, callVars
<1>10. ASSUME UNCHANGED vars
       PROVE  GateInv'
  BY <1>10 DEF vars, managerVars, callVars
<1> QED
  BY <1>1, <1>3, <1>4, <1>5, <1>6, <1>7, <1>8, <1>9, <1>10 DEF Next

\* As long as one switch is under way at a time, every registered tunnel uses
\* the REST config installed now: StopAll, the gate and UpdateClients leave no
\* window in which a tunnel is started with the credentials being replaced.
THEOREM EntriesFollowContext ==
  ASSUME NEW s, Switchers = {s}
  PROVE  Spec => []EntryOnCurrentContext
<1>1. Init => GateInv
  BY ConstantsAssumption
     DEF Init, GateInv, TypeOK, EntryOnCurrentContext, GateHolds, Registered,
         CallStates, TunnelStates
<1>2. OwnInv /\ GateInv /\ OwnInv' /\ [Next]_vars => GateInv'
  BY GateStep DEF OwnInv
<1>3. GateInv => EntryOnCurrentContext
  BY DEF GateInv
<1> QED
  BY <1>1, <1>2, <1>3, OwnInvariant, PTL DEF Spec

(***************************************************************************)
(* The Hubble client                                                       *)
(***************************************************************************)


-----------------------------------------------------------------------------
(* Type correctness of the client.                                         *)

LEMMA HubbleTypeStep == HubbleTypeOK /\ [HubbleNext]_hubbleVars => HubbleTypeOK'
<1> SUFFICES ASSUME HubbleTypeOK, [HubbleNext]_hubbleVars
             PROVE  HubbleTypeOK'
  OBVIOUS
<1> USE HubbleAssumption DEF HubbleTypeOK, FlowCallStates, Dialling, Goto
<1>1. ASSUME NEW c \in Clusters, Reset(c)
      PROVE  HubbleTypeOK'
  <2>1. clients' \in Clusters /\ generation' \in Nat /\ open' \subseteq Callers
    BY <1>1 DEF Reset, TeardownLocked
  <2> QED
    BY <1>1, <2>1 DEF Reset, TeardownLocked, localVars
<1>2. CASE Expire
  BY <1>2 DEF Expire, connVars, localVars
<1>3. ASSUME NEW k \in Callers, ReturnNone(k)
      PROVE  HubbleTypeOK'
  BY <1>3 DEF ReturnNone, cacheVars, connVars, localVars
<1>4. ASSUME NEW k \in Callers, ReuseConnection(k)
      PROVE  HubbleTypeOK'
  BY <1>4 DEF ReuseConnection, cacheVars, connVars
<1>5. ASSUME NEW k \in Callers, WaitForDial(k)
      PROVE  HubbleTypeOK'
  BY <1>5 DEF WaitForDial, DropExpired, FailureCached, connVars
<1>6. ASSUME NEW k \in Callers, BeginDial(k)
      PROVE  HubbleTypeOK'
  BY <1>6 DEF BeginDial, NeedsDial, Unattached, DropExpired, FailureCached,
              connVars
<1>7. ASSUME NEW k \in Callers, StopWaiting(k)
      PROVE  HubbleTypeOK'
  BY <1>7 DEF StopWaiting, cacheVars, connVars, localVars
<1>8. ASSUME NEW k \in Callers, Dial(k)
      PROVE  HubbleTypeOK'
  <2>1. CASE TunnelReady(k) \/ Discard(k) \/ DialFails(k)
    <3>1. open' \subseteq Callers /\ dialing' \in Callers \cup {Nothing}
      BY <2>1 DEF TunnelReady, Discard, DialFails
    <3>2. /\ \E to \in FlowCallStates \ {"waiting", "dialing", "fetching", "checking"} :
               (to = "connected" => stage[k] = "dialing") /\ stage' = [stage EXCEPT ![k] = to]
          /\ UNCHANGED <<clients, generation, cacheVars, conn, localVars>>
      BY <2>1 DEF TunnelReady, Discard, DialFails
    <3> QED
      BY <3>1, <3>2 DEF cacheVars, localVars
  <2>2. CASE DialFindsNone(k)
    <3>1. absentIn' \subseteq Nat /\ dialFailedGen' \in Nat
      BY <2>2 DEF DialFindsNone
    <3>2. dialFailed' \in BOOLEAN /\ expired' \in BOOLEAN
      BY <2>2 DEF DialFindsNone
    <3> QED
      BY <2>2, <3>1, <3>2 DEF DialFindsNone, connVars, localVars
  <2>3. CASE CommitDial(k)
    BY <2>3 DEF CommitDial
  <2>4. CASE RefuseDial(k)
    BY <2>4 DEF RefuseDial, cacheVars, connVars, localVars
  <2> QED
    BY <1>8, <2>1, <2>2, <2>3, <2>4 DEF Dial
<1>9. ASSUME NEW k \in Callers, Fetch(k)
      PROVE  HubbleTypeOK'
  <2>1. CASE FetchFails(k)
    <3>1. /\ conn' \in Callers \cup {Nothing} /\ open' \subseteq Callers
          /\ dialFailed' \in BOOLEAN /\ dialFailedGen' \in Nat
          /\ UNCHANGED <<expired, absentIn>>
      <4>1. CASE generation = gen[k]
        <5>1. TeardownLocked
          BY <2>1, <4>1 DEF FetchFails
        <5>2. dialFailed' = FALSE /\ conn' = Nothing /\ open' \subseteq Callers
          BY <5>1 DEF TeardownLocked
        <5> QED
          BY <5>1, <5>2 DEF TeardownLocked
      <4>2. CASE generation # gen[k]
        BY <2>1, <4>2 DEF FetchFails, cacheVars, connVars
      <4> QED
        BY <4>1, <4>2
    <3>2. PICK to \in {"done", "checking"} : Goto(k, to)
      BY <2>1 DEF FetchFails
    <3>3. stage[k] = "fetching" /\ UNCHANGED <<clients, generation, dialing, localVars>>
      BY <2>1 DEF FetchFails
    <3> QED
      BY <3>1, <3>2, <3>3 DEF localVars
  <2>2. CASE FetchEnds(k)
    BY <2>2 DEF FetchEnds, cacheVars, connVars, localVars
  <2>3. CASE Deliver(k)
    <3>1. source[via[k]] \in Clusters \cup {Nothing}
      BY <2>3 DEF Deliver
    <3> QED
      BY <2>3, <3>1 DEF Deliver, cacheVars, connVars
  <2> QED
    BY <1>9, <2>1, <2>2, <2>3 DEF Fetch
<1>10. CASE UNCHANGED hubbleVars
  BY <1>10 DEF hubbleVars, cacheVars, connVars, localVars
<1> QED
  BY <1>1, <1>2, <1>3, <1>4, <1>5, <1>6, <1>7, <1>8, <1>9, <1>10 DEF HubbleNext, Enter

\* Every reachable state has values of the declared types; in particular a
\* dial never runs with the nil clients of an unattached manager.
THEOREM HubbleTypes == HubbleSpec => []HubbleTypeOK
<1>1. HubbleInit => HubbleTypeOK
  <2> SUFFICES ASSUME HubbleInit
               PROVE  HubbleTypeOK
    OBVIOUS
  <2>1. \A k \in Callers : stage[k] = "idle"
    BY DEF HubbleInit
  <2> QED
    BY <2>1, HubbleAssumption DEF HubbleInit, HubbleTypeOK, FlowCallStates, Dialling
<1> QED
  BY <1>1, HubbleTypeStep, PTL DEF HubbleSpec

-----------------------------------------------------------------------------
(* The inductive invariant.                                                *)

Served == {"fetching", "checking", "done"}

\* dialingCh names the one call that dials, and while it does there is no
\* connection.
OneDial ==
  /\ \A k \in Callers : Dialling(k) <=> dialing = k
  /\ dialing # Nothing => conn = Nothing

\* A generation stands for a cluster: what a call took under the generation
\* of now belongs to the cluster attached now.
GenerationMeansCluster ==
  /\ \A k \in Callers : gen[k] <= generation
  /\ \A k \in Callers : Dialling(k) /\ gen[k] = generation => source[k] = clients
  /\ \A k \in Callers : stage[k] \in {"fetching", "checking"} =>
       /\ stage[via[k]] \in Served
       /\ gen[k] = generation => source[via[k]] = clients

\* A connection was dialled by a call that has left the dial for good.
DialledOnce == conn # Nothing => stage[conn] \in Served

\* A dial that has succeeded holds an open tunnel.
TunnelOfConnected == \A k \in Callers : stage[k] = "connected" => k \in open

HubbleInv ==
  /\ HubbleTypeOK /\ OneDial /\ GenerationMeansCluster /\ DialledOnce
  /\ TunnelOfConnected
  /\ TunnelsAccounted /\ ConnectionIsCurrent /\ AbsenceIsCurrent

LEMMA HubbleStarts == HubbleInit => HubbleInv
<1> SUFFICES ASSUME HubbleInit
             PROVE  HubbleInv
  OBVIOUS
<1>1. \A k \in Callers : stage[k] = "idle" /\ gen[k] = 0
  BY DEF HubbleInit
<1>2. HubbleTypeOK
  BY <1>1, HubbleAssumption DEF HubbleInit, HubbleTypeOK, FlowCallStates, Dialling
<1> QED
  BY <1>1, <1>2, HubbleAssumption
   DEF HubbleInit, HubbleInv, HubbleTypeOK, FlowCallStates, Dialling, OneDial,
       GenerationMeansCluster,
       DialledOnce, TunnelOfConnected, TunnelsAccounted, ConnectionIsCurrent,
       AbsenceIsCurrent,       Suppressed, FailureCached

LEMMA OneDialStep ==
  HubbleInv /\ HubbleTypeOK' /\ [HubbleNext]_hubbleVars => OneDial' /\ DialledOnce'
<1> SUFFICES ASSUME HubbleInv, HubbleTypeOK', [HubbleNext]_hubbleVars
             PROVE  OneDial' /\ DialledOnce'
  OBVIOUS
<1> USE HubbleAssumption
    DEF HubbleInv, HubbleTypeOK, FlowCallStates, Dialling, Goto, OneDial, DialledOnce, Served
<1>1. ASSUME NEW c \in Clusters, Reset(c)
      PROVE  OneDial' /\ DialledOnce'
  BY <1>1 DEF Reset, TeardownLocked
<1>2. ASSUME NEW k \in Callers, Enter(k)
      PROVE  OneDial' /\ DialledOnce'
  <2>1. stage[k] \in {"idle", "waiting"}
    BY <1>2 DEF Enter, ReturnNone, ReuseConnection, WaitForDial, BeginDial,
                NeedsDial, AtEntry
  <2>2. CASE ReturnNone(k) \/ ReuseConnection(k) \/ WaitForDial(k)
    BY <2>1, <2>2 DEF ReturnNone, ReuseConnection, WaitForDial, connVars
  <2>3. CASE BeginDial(k)
    BY <2>1, <2>3 DEF BeginDial, NeedsDial, connVars
  <2> QED
    BY <1>2, <2>2, <2>3 DEF Enter
<1>3. ASSUME NEW k \in Callers, StopWaiting(k)
      PROVE  OneDial' /\ DialledOnce'
  BY <1>3 DEF StopWaiting, connVars
<1>4. ASSUME NEW k \in Callers, Dial(k)
      PROVE  OneDial' /\ DialledOnce'
  <2>1. CASE TunnelReady(k) \/ Discard(k)
    BY <2>1 DEF TunnelReady, Discard
  <2>2. CASE DialFindsNone(k) \/ DialFails(k) \/ RefuseDial(k)
    BY <2>2 DEF DialFindsNone, DialFails, RefuseDial, connVars
  <2>3. CASE CommitDial(k)
    BY <2>3 DEF CommitDial
  <2> QED
    BY <1>4, <2>1, <2>2, <2>3 DEF Dial
<1>5. ASSUME NEW k \in Callers, Fetch(k)
      PROVE  OneDial' /\ DialledOnce'
  BY <1>5 DEF Fetch, FetchFails, FetchEnds, Deliver, TeardownLocked, connVars
<1>6. CASE Expire \/ UNCHANGED hubbleVars
  BY <1>6 DEF Expire, hubbleVars, connVars
<1> QED
  BY <1>1, <1>2, <1>3, <1>4, <1>5, <1>6 DEF HubbleNext

LEMMA GenerationStep ==
  HubbleInv /\ HubbleTypeOK' /\ [HubbleNext]_hubbleVars => GenerationMeansCluster'
<1> SUFFICES ASSUME HubbleInv, HubbleTypeOK', [HubbleNext]_hubbleVars
             PROVE  GenerationMeansCluster'
  OBVIOUS
<1> USE HubbleAssumption
    DEF HubbleInv, HubbleTypeOK, FlowCallStates, Dialling, Goto, Served, GenerationMeansCluster
<1>1. ASSUME NEW c \in Clusters, Reset(c)
      PROVE  GenerationMeansCluster'
  BY <1>1 DEF Reset, localVars
<1>2. ASSUME NEW k \in Callers, Enter(k)
      PROVE  GenerationMeansCluster'
  <2>1. stage[k] \in {"idle", "waiting"}
    BY <1>2 DEF Enter, ReturnNone, ReuseConnection, WaitForDial, BeginDial,
                NeedsDial, AtEntry
  <2>2. CASE ReturnNone(k) \/ WaitForDial(k)
    BY <2>1, <2>2 DEF ReturnNone, WaitForDial, localVars
  <2>3. CASE ReuseConnection(k)
    BY <2>1, <2>3 DEF ReuseConnection, DialledOnce, ConnectionIsCurrent
  <2>4. CASE BeginDial(k)
    BY <2>1, <2>4 DEF BeginDial
  <2> QED
    BY <1>2, <2>2, <2>3, <2>4 DEF Enter
<1>3. ASSUME NEW k \in Callers, StopWaiting(k)
      PROVE  GenerationMeansCluster'
  BY <1>3 DEF StopWaiting, localVars
<1>4. ASSUME NEW k \in Callers, Dial(k)
      PROVE  GenerationMeansCluster'
  <2>1. CASE CommitDial(k)
    BY <2>1 DEF CommitDial
  <2>2. CASE TunnelReady(k) \/ DialFindsNone(k) \/ DialFails(k)
    BY <2>2 DEF TunnelReady, DialFindsNone, DialFails, localVars
  <2>3. CASE RefuseDial(k) \/ Discard(k)
    BY <2>3 DEF RefuseDial, Discard, localVars
  <2> QED
    BY <1>4, <2>1, <2>2, <2>3 DEF Dial
<1>5. ASSUME NEW k \in Callers, Fetch(k)
      PROVE  GenerationMeansCluster'
  <2>1. CASE FetchFails(k)
    BY <2>1 DEF FetchFails, localVars
  <2>2. CASE FetchEnds(k) \/ Deliver(k)
    BY <2>2 DEF FetchEnds, Deliver, localVars
  <2> QED
    BY <1>5, <2>1, <2>2 DEF Fetch
<1>6. CASE Expire \/ UNCHANGED hubbleVars
  BY <1>6 DEF Expire, hubbleVars, localVars
<1> QED
  BY <1>1, <1>2, <1>3, <1>4, <1>5, <1>6 DEF HubbleNext

Tunnels == TunnelOfConnected /\ TunnelsAccounted /\ ConnectionIsCurrent

LEMMA TunnelStep ==
  HubbleInv /\ HubbleTypeOK' /\ [HubbleNext]_hubbleVars => Tunnels'
<1> SUFFICES ASSUME HubbleInv, HubbleTypeOK', [HubbleNext]_hubbleVars
             PROVE  Tunnels'
  OBVIOUS
<1> USE HubbleAssumption
    DEF HubbleInv, HubbleTypeOK, FlowCallStates, Dialling, Goto, Tunnels, TunnelOfConnected,
        TunnelsAccounted, ConnectionIsCurrent
<1>1. ASSUME NEW c \in Clusters, Reset(c)
      PROVE  Tunnels'
  BY <1>1 DEF Reset, TeardownLocked, OneDial, DialledOnce, Served, localVars
<1>2. ASSUME NEW k \in Callers, Enter(k)
      PROVE  Tunnels'
  <2>1. stage[k] \in {"idle", "waiting"}
    BY <1>2 DEF Enter, ReturnNone, ReuseConnection, WaitForDial, BeginDial,
                NeedsDial, AtEntry
  <2>2. CASE ReturnNone(k) \/ ReuseConnection(k) \/ WaitForDial(k)
    BY <2>1, <2>2 DEF ReturnNone, ReuseConnection, WaitForDial, connVars, localVars
  <2>3. CASE BeginDial(k)
    BY <2>1, <2>3 DEF BeginDial, NeedsDial, connVars
  <2> QED
    BY <1>2, <2>2, <2>3 DEF Enter
<1>3. ASSUME NEW k \in Callers, StopWaiting(k)
      PROVE  Tunnels'
  BY <1>3 DEF StopWaiting, connVars, localVars
<1>4. ASSUME NEW k \in Callers, Dial(k)
      PROVE  Tunnels'
  <2>1. CASE CommitDial(k)
    <3>1. conn = Nothing /\ \A j \in Callers : stage[j] = "connected" => j = k
      BY <2>1 DEF CommitDial, OneDial
    <3>2. source[k] = clients /\ k \in Callers
      BY <2>1 DEF CommitDial, GenerationMeansCluster
    <3>3. stage' = [stage EXCEPT ![k] = "fetching"] /\ conn' = k
          /\ UNCHANGED <<open, source, clients>>
      BY <2>1 DEF CommitDial
    <3>4. k \in open
      BY <2>1 DEF CommitDial, TunnelOfConnected
    <3> QED
      BY <3>1, <3>2, <3>3, <3>4
  <2>2. CASE TunnelReady(k) \/ RefuseDial(k)
    BY <2>2 DEF TunnelReady, RefuseDial, connVars, localVars
  <2>3. CASE DialFindsNone(k)
    BY <2>3 DEF DialFindsNone, connVars, localVars
  <2>4. CASE DialFails(k) \/ Discard(k)
    BY <2>4 DEF DialFails, Discard, localVars, DialledOnce, Served
  <2> QED
    BY <1>4, <2>1, <2>2, <2>3, <2>4 DEF Dial
<1>5. ASSUME NEW k \in Callers, Fetch(k)
      PROVE  Tunnels'
  <2>1. CASE FetchFails(k)
    BY <2>1 DEF FetchFails, TeardownLocked, connVars, localVars, DialledOnce, Served
  <2>2. CASE FetchEnds(k) \/ Deliver(k)
    BY <2>2 DEF FetchEnds, Deliver, connVars, localVars
  <2> QED
    BY <1>5, <2>1, <2>2 DEF Fetch
<1>6. CASE Expire \/ UNCHANGED hubbleVars
  BY <1>6 DEF Expire, hubbleVars, connVars, localVars
<1> QED
  BY <1>1, <1>2, <1>3, <1>4, <1>5, <1>6 DEF HubbleNext

\* A step keeps AbsenceIsCurrent if it does one of these.
AbsenceHarmless ==
  \/ ~FailureCached'
  \/ expired' = TRUE
  \/ generation' \in absentIn'
  \/ /\ UNCHANGED <<dialFailed, dialFailedGen, expired, generation>>
     /\ absentIn \subseteq absentIn'

LEMMA AbsenceKept == AbsenceIsCurrent /\ AbsenceHarmless => AbsenceIsCurrent'
<1> SUFFICES ASSUME AbsenceIsCurrent, AbsenceHarmless
             PROVE  AbsenceIsCurrent'
  OBVIOUS
<1> USE DEF AbsenceIsCurrent, Suppressed
<1>1. CASE ~FailureCached'
  BY <1>1, Zenon
<1>2. CASE expired' = TRUE
  BY <1>2, Zenon
<1>3. CASE generation' \in absentIn'
  BY <1>3, Zenon
<1>4. CASE /\ UNCHANGED <<dialFailed, dialFailedGen, expired, generation>>
           /\ absentIn \subseteq absentIn'
  BY <1>4, Zenon DEF FailureCached
<1> QED
  BY <1>1, <1>2, <1>3, <1>4, Zenon DEF AbsenceHarmless

LEMMA SuppressionStep == HubbleInv /\ [HubbleNext]_hubbleVars => AbsenceIsCurrent'
<1> SUFFICES ASSUME HubbleInv, [HubbleNext]_hubbleVars
             PROVE  AbsenceHarmless
  BY AbsenceKept DEF HubbleInv
<1> USE DEF AbsenceHarmless
<1>1. ASSUME NEW c \in Clusters, Reset(c)
      PROVE  AbsenceHarmless
  BY <1>1, Zenon DEF Reset, TeardownLocked, FailureCached
<1>2. CASE Expire
  BY <1>2, Zenon DEF Expire
<1>3. CASE UNCHANGED cacheVars /\ UNCHANGED generation
  BY <1>3, Zenon DEF cacheVars
<1>4. CASE DropExpired /\ UNCHANGED generation
  BY <1>4, Zenon DEF DropExpired, FailureCached
<1>5. ASSUME NEW k \in Callers, DialFindsNone(k)
      PROVE  AbsenceHarmless
  <2>1. CASE generation = gen[k]
    BY <1>5, <2>1 DEF DialFindsNone
  <2>2. CASE generation # gen[k]
    BY <1>5, <2>2 DEF DialFindsNone
  <2> QED
    BY <2>1, <2>2
<1>6. ASSUME NEW k \in Callers, CommitDial(k)
      PROVE  AbsenceHarmless
  BY <1>6, Zenon DEF CommitDial, FailureCached
<1>7. ASSUME NEW k \in Callers, FetchFails(k)
      PROVE  AbsenceHarmless
  <2>1. CASE TeardownLocked
    BY <2>1, Zenon DEF TeardownLocked, FailureCached
  <2> QED
    BY <1>3, <1>7, <2>1, Zenon DEF FetchFails
<1> QED
  BY <1>1, <1>2, <1>3, <1>4, <1>5, <1>6, <1>7, Zenon
     DEF HubbleNext, Enter, ReturnNone, ReuseConnection, WaitForDial, BeginDial, StopWaiting,
         Dial, TunnelReady, DialFails, RefuseDial, Discard, Fetch, FetchEnds, Deliver,
         hubbleVars

\* Every reachable state satisfies the inductive invariant.
THEOREM HubbleInvariance == HubbleSpec => []HubbleInv
<1>1. HubbleInv /\ [HubbleNext]_hubbleVars => HubbleInv'
  BY HubbleTypeStep, OneDialStep, GenerationStep, TunnelStep, SuppressionStep DEF HubbleInv, Tunnels
<1> QED
  BY HubbleStarts, <1>1, PTL DEF HubbleSpec

-----------------------------------------------------------------------------
(* The properties.                                                         *)

\* No order of resets, failures and late dials leaves a tunnel running that
\* neither the manager nor a call under way will stop.
THEOREM NoTunnelLeaks == HubbleSpec => []TunnelsAccounted
BY HubbleInvariance, PTL DEF HubbleInv

\* At most one tunnel is being set up or in use, however many calls there are.
THEOREM OneTunnelAtATime == HubbleSpec => []SingleTunnel
<1>1. HubbleInv => SingleTunnel
  BY HubbleAssumption
     DEF HubbleInv, HubbleTypeOK, OneDial, TunnelsAccounted, SingleTunnel, Dialling
<1> QED
  BY <1>1, HubbleInvariance, PTL

\* The connection offered for reuse runs, and to the attached cluster.
THEOREM ConnectionStaysCurrent == HubbleSpec => []ConnectionIsCurrent
BY HubbleInvariance, PTL DEF HubbleInv

\* The negative cache never outlives the cluster it is about.
THEOREM SuppressionIsEarned == HubbleSpec => []AbsenceIsCurrent
BY HubbleInvariance, PTL DEF HubbleInv

\* Flows are returned only while the cluster they come from is attached.
THEOREM NoFlowCrossesClusters == HubbleSpec => NoCrossClusterFlows
<1> DEFINE Local == \A k \in Callers : flows'[k] # flows[k] => flows'[k] = clients
<1>1. HubbleInv /\ [HubbleNext]_hubbleVars => [Local]_hubbleVars
  <2> SUFFICES ASSUME HubbleInv, [HubbleNext]_hubbleVars
               PROVE  Local
    OBVIOUS
  <2>1. ASSUME NEW k \in Callers, Deliver(k)
        PROVE  Local
    BY <2>1 DEF Deliver, HubbleInv, HubbleTypeOK, GenerationMeansCluster
  <2>2. CASE UNCHANGED flows
    BY <2>2
  <2> QED
    BY <2>1, <2>2
       DEF HubbleNext, Reset, Expire, Enter, ReturnNone, ReuseConnection, WaitForDial,
           BeginDial, StopWaiting, Dial, TunnelReady, DialFindsNone, DialFails, CommitDial,
           RefuseDial, Discard, Fetch, FetchFails, FetchEnds, hubbleVars, localVars
<1> QED
  BY <1>1, HubbleInvariance, PTL DEF HubbleSpec, NoCrossClusterFlows

=============================================================================
