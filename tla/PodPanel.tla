------------------------------- MODULE PodPanel -------------------------------
(***************************************************************************)
(* The panel of a pod (PodDetail.tsx): its log stream and the events of its *)
(* Lifecycle tab, while the list's polls bring new versions of the pod.    *)
(*                                                                         *)
(* A stream is known by context, pod and container, so here a container    *)
(* stands for the id of its stream.  The main process takes messages in    *)
(* order, and its replies and events come back by one queue.  Another pod  *)
(* or context is another panel: SectionRouter remounts it.                 *)
(***************************************************************************)
EXTENDS Naturals, Sequences, FiniteSets

CONSTANTS
  ContainersOf,   \* the pod's containers, a sequence
  MaxPanelClicks, \* bound: clicks
  MaxPolls,       \* bound: new versions of the pod
  NoStream

ContainerSet == {ContainersOf[i] : i \in DOMAIN ContainersOf}

\* A pod has a container.
ASSUME PodAssumption ==
  /\ ContainersOf \in Seq(ContainerSet) /\ ContainersOf # <<>> /\ NoStream \notin ContainerSet
  /\ MaxPanelClicks \in Nat /\ MaxPolls \in Nat

Tabs == {"logs", "lifecycle"}

VARIABLES
  panel,     \* [mounted, container, tab]
  activeStream,    \* activeStreamIdRef
  streaming, \* isStreaming
  streamStarts,    \* calls of startStream: [on, phase]
  wires,     \* the main process's activeStreams: container -> the start, or 0
  hearing,   \* starts whose preload listeners know their id
  replies,     \* to the window: <<"reply", start>>, <<"end", id>>, <<"stopped", start or 0>>
  linesShown,     \* history: container -> times each of its new lines is shown
  podEvents,    \* [loaded, loading, shown, live]: the events of the pod
  oddly,     \* history: what has happened out of the ordinary
  panelClicks, polls

streamVars == <<activeStream, streaming, streamStarts, wires, hearing, replies, linesShown>>
panelVars == <<panel, streamVars, podEvents, oddly, panelClicks, polls>>

PanelTypeOK ==
  /\ panel \in [mounted: BOOLEAN, container: ContainerSet, tab: Tabs]
  /\ activeStream \in ContainerSet \cup {NoStream} /\ streaming \in BOOLEAN
  /\ \A k \in DOMAIN streamStarts :
        streamStarts[k] \in [on: ContainerSet, phase: {"stopping", "asked", "over"}]
  /\ wires \in [ContainerSet -> 0..Len(streamStarts)] /\ hearing \subseteq DOMAIN streamStarts
  /\ \A c \in ContainerSet : linesShown[c] \in Nat
  /\ podEvents \in [loaded: BOOLEAN, loading: BOOLEAN, shown: BOOLEAN, live: BOOLEAN]
  /\ panelClicks \in 0..MaxPanelClicks /\ polls \in 0..MaxPolls

NoneShown == [c \in ContainerSet |-> 0]

PanelInit ==
  /\ panel = [mounted |-> TRUE, container |-> ContainersOf[1], tab |-> "logs"]
  /\ activeStream = NoStream /\ streaming = FALSE /\ streamStarts = <<>>
  /\ wires = [c \in ContainerSet |-> 0] /\ hearing = {} /\ replies = <<>> /\ linesShown = NoneShown
  /\ podEvents = [loaded |-> FALSE, loading |-> FALSE, shown |-> FALSE, live |-> FALSE]
  /\ oddly = {} /\ panelClicks = 0 /\ polls = 0

--------------------------------------------------------------------------
(* The stream, as a record <<wires, queue, starts>> that the steps pass on *)

StreamNow == [wires |-> wires, queue |-> replies, starts |-> streamStarts]
StreamBecomes(x) == wires' = x.wires /\ replies' = x.queue /\ streamStarts' = x.starts

\* stopLogs of the main process, which sends the end that the preload waits for.
CloseWire(x, id) ==
  IF x.wires[id] = 0 THEN x
  ELSE [x EXCEPT !.wires[id] = 0, !.queue = Append(@, <<"end", id>>)]

Reply(x, message) == [x EXCEPT !.queue = Append(@, message)]

\* streamLogs of the main process: a socket of the same id is closed silently.
OpenWire(x, k) ==
  Reply([x EXCEPT !.wires[x.starts[k].on] = k, !.starts[k].phase = "asked"], <<"reply", k>>)

InFlight == {k \in DOMAIN streamStarts : streamStarts[k].phase # "over"}

\* startStream: a stream that is known is stopped first.
StartStream(x, c, known) ==
  LET k == Len(x.starts) + 1
      y == [x EXCEPT !.starts = Append(@, [on |-> c, phase |-> "stopping"])]
  IN  IF known = NoStream THEN OpenWire(y, k)
      ELSE Reply(CloseWire(y, known), <<"stopped", k>>)

\* history: a stream was started while another start or a stop was under way.
StreamOverlaps ==
  (IF InFlight # {} THEN {"startedTwice"} ELSE {})
  \cup (IF \E i \in DOMAIN replies : replies[i] = <<"stopped", 0>>
        THEN {"startedWhileStopping"} ELSE {})

PanelClick ==
  /\ panel.mounted /\ panelClicks < MaxPanelClicks /\ panelClicks' = panelClicks + 1
  /\ UNCHANGED polls

\* The button STREAM, there when isStreaming is not set.
ClickStream ==
  /\ PanelClick /\ panel.tab = "logs" /\ ~streaming
  /\ StreamBecomes(StartStream(StreamNow, panel.container, activeStream))
  /\ IF activeStream = NoStream THEN streaming' = TRUE /\ linesShown' = NoneShown
     ELSE UNCHANGED <<streaming, linesShown>>
  /\ oddly' = oddly \cup StreamOverlaps
  /\ UNCHANGED <<panel, activeStream, hearing, podEvents>>

\* The button STOP.  A start under way has no id yet that could be stopped.
ClickStop ==
  /\ PanelClick /\ panel.tab = "logs" /\ streaming
  /\ IF activeStream = NoStream
     THEN UNCHANGED <<wires, replies, streamStarts>> /\ streaming' = FALSE
     ELSE /\ StreamBecomes(Reply(CloseWire(StreamNow, activeStream), <<"stopped", 0>>))
          /\ UNCHANGED streaming
  /\ oddly' = oddly \cup (IF InFlight # {} THEN {"stoppedEarly"} ELSE {})
  /\ UNCHANGED <<panel, activeStream, hearing, linesShown, podEvents>>

\* stopLogs has returned, to a click or to the start that awaits it.
StreamStopped(k) ==
  /\ replies # <<>> /\ Head(replies) = <<"stopped", k>>
  /\ activeStream' = NoStream
  /\ LET x == [StreamNow EXCEPT !.queue = Tail(@)]
     IN  IF k # 0 /\ panel.mounted
         THEN /\ StreamBecomes(OpenWire(x, k)) /\ streaming' = TRUE /\ linesShown' = NoneShown
         ELSE /\ StreamBecomes(IF k = 0 THEN x ELSE [x EXCEPT !.starts[k].phase = "over"])
              /\ streaming' = (streaming /\ ~panel.mounted)
              /\ UNCHANGED linesShown
  /\ UNCHANGED <<panel, hearing, podEvents, oddly, panelClicks, polls>>

\* Slip: the mounted flag is not looked at again.
SlipStale == FALSE
\* The panel has been closed while the stream was starting.
Stale == ~panel.mounted

\* streamLogs has returned the id.
Replied(k) ==
  /\ replies # <<>> /\ Head(replies) = <<"reply", k>>
  /\ LET x == [StreamNow EXCEPT !.queue = Tail(@), !.starts[k].phase = "over"]
     IN  StreamBecomes(IF Stale THEN CloseWire(x, streamStarts[k].on) ELSE x)
  /\ activeStream' = IF Stale THEN NoStream ELSE streamStarts[k].on
  /\ hearing' = hearing \cup {k}
  /\ UNCHANGED <<panel, streaming, linesShown, podEvents, oddly, panelClicks, polls>>

\* Slip: the listeners stay.
SlipDeaf(id) == hearing
\* The preload removes the listeners of a stream at its end.
Deaf(id) == {k \in hearing : streamStarts[k].on # id}

\* A stream has ended: for the panel, if it is the active one.
StreamEnded(id) ==
  /\ replies # <<>> /\ Head(replies) = <<"end", id>>
  /\ replies' = Tail(replies) /\ hearing' = Deaf(id)
  /\ LET heard == activeStream = id /\ hearing # Deaf(id)
     IN  /\ activeStream' = IF heard THEN NoStream ELSE activeStream
         /\ streaming' = (streaming /\ ~heard)
  /\ UNCHANGED <<panel, streamStarts, wires, linesShown, podEvents, oddly, panelClicks,
                 polls>>

\* The pod or the sidecar ends a stream.
SocketEnds(id) ==
  /\ wires[id] # 0 /\ wires' = [wires EXCEPT ![id] = 0]
  /\ replies' = Append(replies, <<"end", id>>)
  /\ UNCHANGED <<panel, activeStream, streaming, streamStarts, hearing, linesShown, podEvents,
                 oddly, panelClicks, polls>>

\* The listeners that append a chunk: those of the id, while it is the active one.
ShownBy(id) == IF activeStream = id THEN {k \in hearing : streamStarts[k].on = id} ELSE {}

LinesCome(id) ==
  /\ wires[id] # 0 /\ panel.mounted /\ replies = <<>>
  /\ linesShown' = [linesShown EXCEPT ![id] =
                      IF ShownBy(id) = {} THEN @ ELSE Cardinality(ShownBy(id))]
  /\ UNCHANGED <<panel, activeStream, streaming, streamStarts, wires, hearing, replies, podEvents,
                 oddly, panelClicks, polls>>

--------------------------------------------------------------------------
(* The panel changes                                                       *)

\* A stream is stopped, not awaited, and started again.
Anew(x, c) ==
  IF activeStream = NoStream THEN x ELSE StartStream(CloseWire(x, activeStream), c, NoStream)

\* The effect of a new container or version of the pod; it leaves a start alone
\* that has no id yet.
ResetPanel ==
  /\ activeStream' = NoStream
  /\ streaming' = IF activeStream = NoStream THEN streaming ELSE TRUE
  /\ linesShown' = NoneShown
  /\ podEvents' = [podEvents EXCEPT !.shown = FALSE, !.loaded = FALSE]

ChooseContainer(c) ==
  /\ PanelClick /\ c # panel.container
  /\ panel' = [panel EXCEPT !.container = c]
  /\ ResetPanel /\ StreamBecomes(Anew(StreamNow, c))
  /\ oddly' = oddly \cup (IF InFlight # {} THEN {"containerWhileStarting"} ELSE {})
                    \cup (IF panel.tab = "lifecycle" THEN {"eventsEmptied"} ELSE {})
                    \cup (IF activeStream # NoStream THEN StreamOverlaps ELSE {})
  /\ UNCHANGED <<hearing>>

\* A poll of the list brings the pod as a new object: the effects run for it, also
\* the one that chooses the first container, for which nothing is restarted since
\* the start of the other has no id yet.
Polled ==
  /\ panel.mounted /\ polls < MaxPolls /\ polls' = polls + 1
  /\ panel' = [panel EXCEPT !.container = ContainersOf[1]]
  /\ ResetPanel /\ StreamBecomes(Anew(StreamNow, panel.container))
  /\ oddly' = oddly \cup (IF panel.container # ContainersOf[1] THEN {"containerReset"} ELSE {})
                    \cup (IF panel.tab = "lifecycle" THEN {"eventsEmptied"} ELSE {})
                    \cup (IF activeStream # NoStream THEN StreamOverlaps ELSE {})
  /\ UNCHANGED <<hearing, panelClicks>>

\* Slip: the stream is left running.
SlipOnClose(x) == x
\* The cleanup of the panel.
OnClose(x) == IF activeStream = NoStream THEN x ELSE CloseWire(x, activeStream)

\* The panel is closed, or the section, the namespace or the context is left.
ClosePod ==
  /\ panel.mounted /\ panel' = [panel EXCEPT !.mounted = FALSE]
  /\ StreamBecomes(OnClose(StreamNow)) /\ activeStream' = NoStream /\ linesShown' = NoneShown
  /\ podEvents' = [podEvents EXCEPT !.live = FALSE]
  /\ UNCHANGED <<streaming, hearing, oddly, panelClicks, polls>>

\* The events of a pod are asked for when its Lifecycle tab is opened; leaving the
\* tab cancels the wait for them.
OpenTab(t) ==
  /\ PanelClick /\ t # panel.tab
  /\ panel' = [panel EXCEPT !.tab = t]
  /\ IF t = "lifecycle" /\ ~podEvents.loaded
     THEN podEvents' = [podEvents EXCEPT !.loaded = TRUE, !.loading = TRUE, !.live = TRUE]
     ELSE podEvents' = [podEvents EXCEPT !.live = FALSE]
  /\ oddly' = (IF t = "lifecycle" /\ ~podEvents.loaded
               THEN oddly \ {"eventsEmptied", "eventsFailed"} ELSE oddly)
              \cup (IF podEvents.live THEN {"tabLeft"} ELSE {})
  /\ UNCHANGED <<streamVars>>

\* Slip: the spinner is not taken away.
SlipEventsAnswered(ok) == [podEvents EXCEPT !.live = FALSE, !.shown = ok, !.loaded = ok /\ @]
EventsAnswered(ok) ==
  [podEvents EXCEPT !.live = FALSE, !.loading = FALSE, !.shown = ok, !.loaded = ok /\ @]

EventsArrive(ok) ==
  /\ podEvents.live
  /\ podEvents' = EventsAnswered(ok)
  /\ oddly' = (oddly \ {"eventsEmptied"}) \cup (IF ok THEN {} ELSE {"eventsFailed"})
  /\ UNCHANGED <<panel, streamVars, panelClicks, polls>>

PanelNext ==
  \/ ClickStream \/ ClickStop \/ Polled \/ ClosePod
  \/ \E k \in 0..Len(streamStarts) : StreamStopped(k)
  \/ \E k \in DOMAIN streamStarts : Replied(k)
  \/ \E c \in ContainerSet : StreamEnded(c) \/ SocketEnds(c) \/ LinesCome(c) \/ ChooseContainer(c)
  \/ \E t \in Tabs : OpenTab(t)
  \/ \E ok \in BOOLEAN : EventsArrive(ok)

PanelSpec == PanelInit /\ [][PanelNext]_panelVars

--------------------------------------------------------------------------
(* Properties                                                              *)

QueueEmpty == replies = <<>>

\* The lines on display are of the container that is selected: unless another was
\* selected while a start was under way, or a poll selected the first one while
\* another's stream was on.
LinesOfContainer ==
  (\E c \in ContainerSet : c # panel.container /\ linesShown[c] > 0) =>
     oddly \cap {"containerWhileStarting", "containerReset"} # {}

\* A line is shown once: unless a stream was started again before the first start
\* had its id, and so has two listeners.
LinesOnce == \A c \in ContainerSet : linesShown[c] > 1 => "startedTwice" \in oddly

\* At rest the stream that runs is the one the panel knows, and could stop: none
\* runs beside it, nor on after the panel is closed, unless two starts overlapped.
StreamIsKnown ==
  QueueEmpty => \A c \in ContainerSet :
    wires[c] # 0 /\ (c # activeStream \/ ~panel.mounted) => "startedTwice" \in oddly

\* At rest the button offers to stop just when there is a stream: unless STOP or
\* another container was clicked while one was starting.
ButtonTells ==
  QueueEmpty /\ panel.mounted /\ streaming # (activeStream # NoStream) =>
    oddly \cap {"stoppedEarly", "startedTwice", "startedWhileStopping"} # {}

\* With no answer awaited, the Lifecycle tab shows the pod's events and no spinner:
\* unless the tab was left while they were loading, or a poll or another container
\* emptied them, or they failed.
EventsCome ==
  panel.mounted /\ panel.tab = "lifecycle" /\ ~podEvents.live =>
    \/ podEvents.shown /\ ~podEvents.loading
    \/ oddly \cap {"tabLeft", "eventsEmptied", "eventsFailed"} # {}

\* The panel shows what it says, of the container selected.
PodPanelTrue ==
  /\ PanelTypeOK /\ LinesOfContainer /\ LinesOnce /\ StreamIsKnown /\ ButtonTells
  /\ EventsCome

=============================================================================
