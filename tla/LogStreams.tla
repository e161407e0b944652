------------------------------ MODULE LogStreams ------------------------------
(***************************************************************************)
(* Log streams: UnifiedLogs, which streams several pods at once, the       *)
(* listeners of the preload script, and the main process's table of        *)
(* sockets (ipc/kubectl.ts).                                               *)
(*                                                                         *)
(* A stream is known by context and pod, so that two calls of streamLogs   *)
(* may bear one id.  streamIds.current is an object that is replaced when  *)
(* streams are stopped; its identity is a number here, its entries `ids'.  *)
(* The main process takes messages in the order they were sent; a message  *)
(* and what it does there are one step, and replies and events come back   *)
(* by a queue.                                                             *)
(***************************************************************************)
EXTENDS Naturals, Sequences, SequencesExt, FiniteSets

CONSTANTS
  LogPods,       \* the selected pods, a sequence
  LogContexts, FirstContext,
  LogStarts,     \* clicks on "Start Stream"
  Cleaners,      \* runs of the code that stops streams
  MaxLogSwitches,
  NoId

PodSet == ToSet(LogPods)
LogIds == LogContexts \X PodSet
LogCalls  == LogStarts \X PodSet

\* Pods are selected in an order, each once.
ASSUME LogAssumption ==
  /\ LogPods \in Seq(PodSet) /\ IsInjective(LogPods) /\ FirstContext \in LogContexts
  /\ MaxLogSwitches \in Nat /\ NoId \notin LogContexts /\ NoId \notin LogCalls

VARIABLES
  logContext,  \* selectedContext
  logSwitches,
  isStreaming,
  object,      \* which object streamIds.current is
  logIds,      \* its entries: pod -> context of the id, or NoId
  startAt,     \* startStreaming: index of the pod whose streamLogs it awaits, or 0
  started,     \* the context a start was clicked in
  snapshot,    \* idsSnapshot
  hears,       \* calls whose preload listeners are registered
  resolved,    \* calls whose resolvedId is set
  socket,      \* activeStreams of the main process
  inbox,       \* to the renderer: <<"reply", call>>, <<"end", id>>, <<"stopped", cleaner>>
  cleaner,     \* [kind, left]: what a cleaner is to stop; kind "idle", "due", "done"
  silenced,    \* history: calls whose socket was closed with no event sent
  strayed      \* history: a start was under way while streams were stopped or ended,
               \* or as another start's loop turned isStreaming off

logVars == <<logContext, logSwitches, isStreaming, object, logIds, startAt, started, snapshot,
             hears, resolved, socket, inbox, cleaner, silenced, strayed>>
viewVars == <<startAt, started, snapshot>>

Id(c)  == <<started[c[1]], c[2]>>
NoIds  == [p \in PodSet |-> NoId]
Values == {<<logIds[p], p>> : p \in {q \in PodSet : logIds[q] # NoId}}
Idle   == [kind |-> "idle", left |-> <<>>]

LogTypeOK ==
  /\ logContext \in LogContexts /\ logSwitches \in 0..MaxLogSwitches
  /\ isStreaming \in BOOLEAN /\ object \in Nat
  /\ logIds \in [PodSet -> LogContexts \cup {NoId}]
  /\ startAt \in [LogStarts -> 0..(Len(LogPods) + 1)]
  /\ started \in [LogStarts -> LogContexts] /\ snapshot \in [LogStarts -> Nat]
  /\ hears \subseteq LogCalls /\ resolved \subseteq LogCalls /\ silenced \subseteq LogCalls
  /\ socket \in [LogIds -> LogCalls \cup {NoId}]
  /\ \A k \in Cleaners : /\ cleaner[k].kind \in {"idle", "due", "context", "clear", "stop",
                                                "removed", "done"}
                         /\ cleaner[k].left \in Seq(LogIds)
  /\ strayed \in BOOLEAN

LogInit ==
  /\ logContext = FirstContext /\ logSwitches = 0
  /\ isStreaming = FALSE /\ object = 0 /\ logIds = NoIds
  /\ startAt = [s \in LogStarts |-> 0]
  /\ started = [s \in LogStarts |-> FirstContext] /\ snapshot = [s \in LogStarts |-> 0]
  /\ hears = {} /\ resolved = {} /\ silenced = {}
  /\ socket = [i \in LogIds |-> NoId]
  /\ inbox = <<>>
  /\ cleaner = [k \in Cleaners |-> Idle]
  /\ strayed = FALSE

--------------------------------------------------------------------------
(* The main process                                                        *)

\* streamLogs: a socket of the same id is closed, and nobody is told.
StreamLogs(c, i, links, queued) ==
  /\ socket' = [links EXCEPT ![i] = c]
  /\ silenced' = silenced \cup ({links[i]} \ {NoId})
  /\ inbox' = Append(queued, <<"reply", c>>)

\* Slip: the end is not sent.
SlipEndOf(i) == <<>>
\* stopLogs sends the end itself, for the preload's listeners.
EndOf(i) == IF socket[i] = NoId THEN <<>> ELSE <<<<"end", i>>>>

StopLogs(i, queued, answer) ==
  /\ socket' = [socket EXCEPT ![i] = NoId]
  /\ inbox' = queued \o EndOf(i) \o answer

\* The pod has ended, or the sidecar.
SocketCloses(i) ==
  /\ socket[i] # NoId
  /\ socket' = [socket EXCEPT ![i] = NoId]
  /\ inbox' = Append(inbox, <<"end", i>>)
  /\ UNCHANGED <<logContext, logSwitches, isStreaming, object, logIds, viewVars, hears, resolved,
                 cleaner, silenced, strayed>>

--------------------------------------------------------------------------
(* UnifiedLogs                                                             *)

\* The loop of startStreaming, for a context, at its i-th pod or past the last.
Ask(s, context, i, links, queued) ==
  /\ startAt' = [startAt EXCEPT ![s] = i]
  /\ IF i <= Len(LogPods)
     THEN LET pod == LogPods[i]
          IN  /\ snapshot' = [snapshot EXCEPT ![s] = object]
              /\ hears' = hears \cup {<<s, pod>>}
              /\ StreamLogs(<<s, pod>>, <<context, pod>>, links, queued)
     ELSE /\ socket' = links /\ inbox' = queued
          /\ UNCHANGED <<snapshot, hears, silenced>>

Looping(s) == startAt[s] \in 1..Len(LogPods)

Cleaning == \E k \in Cleaners : cleaner[k].kind \notin {"idle", "done"}

StartStreaming(s) ==
  /\ startAt[s] = 0 /\ ~isStreaming
  /\ isStreaming' = TRUE
  /\ started' = [started EXCEPT ![s] = logContext]
  /\ Ask(s, logContext, 1, socket, inbox)
  /\ strayed' = (strayed \/ Cleaning)
  /\ UNCHANGED <<logContext, logSwitches, object, logIds, resolved, cleaner>>

\* Slip: the guard against orphans is missing.
SlipKept(s) == TRUE
\* Was streamIds.current still the object it was before streamLogs was awaited?
Kept(s) == snapshot[s] = object

\* The reply of streamLogs: the preload knows the id.  The stream is kept, or
\* stopped if streamIds.current was replaced meanwhile, and the loop goes on.
LogReply(c) ==
  /\ inbox # <<>> /\ Head(inbox) = <<"reply", c>>
  /\ resolved' = resolved \cup {c}
  /\ LET s == c[1]
         i == Id(c)
         last == startAt[s] = Len(LogPods)
     IN  /\ IF Kept(s)
            THEN /\ logIds' = [logIds EXCEPT ![c[2]] = i[1]]
                 /\ Ask(s, i[1], startAt[s] + 1, socket, Tail(inbox))
                 /\ strayed' = (strayed \/ \E k \in Cleaners :
                                   cleaner[k].kind \in {"due", "context", "clear", "removed"})
            ELSE /\ logIds' = logIds
                 /\ Ask(s, i[1], startAt[s] + 1, [socket EXCEPT ![i] = NoId],
                         Tail(inbox) \o EndOf(i))
                 /\ strayed' = (strayed \/ ~last
                                  \/ (logIds = NoIds /\ \E t \in LogStarts \ {s} : Looping(t)))
         /\ isStreaming' = (isStreaming /\ (last => logIds' # NoIds))
  /\ UNCHANGED <<logContext, logSwitches, object, started, cleaner>>

\* The end of an id: every call that bears it takes its listeners away, and the
\* entry goes if it has that id.
HearEnd(i) ==
  /\ inbox # <<>> /\ Head(inbox) = <<"end", i>>
  /\ inbox' = Tail(inbox)
  /\ LET told == {c \in hears \cap resolved : Id(c) = i}
         gone == told # {} /\ logIds[i[2]] = i[1]
     IN  /\ hears' = hears \ told
         /\ logIds' = IF gone THEN [logIds EXCEPT ![i[2]] = NoId] ELSE logIds
         /\ isStreaming' = (isStreaming /\ (gone => logIds' # NoIds))
         /\ strayed' = (strayed \/ (gone /\ logIds' = NoIds /\ \E s \in LogStarts : Looping(s)))
  /\ UNCHANGED <<logContext, logSwitches, object, viewVars, resolved, socket, cleaner, silenced>>

--------------------------------------------------------------------------
(* Stopping streams                                                        *)

\* stopLogs of the first of the ids left, or the end of the cleaner.
CleanOn(k, what, rest, queued) ==
  IF rest # <<>>
  THEN /\ StopLogs(Head(rest), queued, <<<<"stopped", k>>>>)
       /\ cleaner' = [cleaner EXCEPT ![k] = [kind |-> what, left |-> rest]]
       /\ UNCHANGED isStreaming
  ELSE /\ cleaner' = [cleaner EXCEPT ![k].kind = "done", ![k].left = <<>>]
       /\ inbox' = queued
       /\ isStreaming' = FALSE
       /\ UNCHANGED socket

Replace == object' = object + 1 /\ logIds' = NoIds

\* "Stop All", or leaving the section: the object is replaced first.
StopAllStreams(k) ==
  /\ cleaner[k].kind = "idle" /\ isStreaming
  /\ Replace
  /\ CleanOn(k, "stop", SetToSeq(Values), inbox)
  /\ UNCHANGED <<logContext, logSwitches, viewVars, hears, resolved, silenced, strayed>>

\* After a change of context, or of namespace while streaming: it is replaced
\* last, after every stop that was awaited.
Clear(k, what) ==
  /\ \/ what = "context" /\ cleaner[k].kind = "due"
     \/ what = "clear" /\ cleaner[k].kind = "idle" /\ isStreaming
  /\ IF Values = {} THEN Replace ELSE UNCHANGED <<object, logIds>>
  /\ CleanOn(k, what, SetToSeq(Values), inbox)
  /\ UNCHANGED <<logContext, logSwitches, viewVars, hears, resolved, silenced, strayed>>

\* A selected pod is no longer in the list.
SyncPods(k) ==
  /\ cleaner[k].kind = "idle"
  /\ \E i \in Values : CleanOn(k, "removed", <<i>>, inbox)
  /\ UNCHANGED <<logContext, logSwitches, object, logIds, viewVars, hears, resolved, silenced,
                 strayed>>

Stopped(k) ==
  /\ inbox # <<>> /\ Head(inbox) = <<"stopped", k>>
  /\ LET what == cleaner[k].kind
         rest == Tail(cleaner[k].left)
     IN  IF what = "removed"
         THEN /\ logIds' = [logIds EXCEPT ![Head(cleaner[k].left)[2]] = NoId]
              /\ cleaner' = [cleaner EXCEPT ![k] = [kind |-> "done", left |-> <<>>]]
              /\ inbox' = Tail(inbox)
              /\ UNCHANGED <<object, isStreaming, socket>>
         ELSE /\ IF rest = <<>> /\ what # "stop" THEN Replace ELSE UNCHANGED <<object, logIds>>
              /\ CleanOn(k, what, rest, Tail(inbox))
  /\ UNCHANGED <<logContext, logSwitches, viewVars, hears, resolved, silenced, strayed>>

\* Slip: the switch leaves the sockets to the view.
SlipSwitchLogs(to, k) ==
  /\ logSwitches < MaxLogSwitches /\ to # logContext /\ cleaner[k].kind = "idle"
  /\ logSwitches' = logSwitches + 1 /\ logContext' = to
  /\ cleaner' = [cleaner EXCEPT ![k].kind = "done"]
  /\ UNCHANGED <<isStreaming, object, logIds, viewVars, hears, resolved, socket, inbox, silenced,
                 strayed>>

\* selectContext closes every socket, with no event; the view's effect comes later.
SwitchLogs(to, k) ==
  /\ logSwitches < MaxLogSwitches /\ to # logContext /\ cleaner[k].kind = "idle"
  /\ logSwitches' = logSwitches + 1 /\ logContext' = to
  /\ silenced' = silenced \cup ({socket[i] : i \in LogIds} \ {NoId})
  /\ socket' = [i \in LogIds |-> NoId]
  /\ cleaner' = [cleaner EXCEPT ![k].kind = "due"]
  /\ UNCHANGED <<isStreaming, object, logIds, viewVars, hears, resolved, inbox, strayed>>

LogNext ==
  \/ \E s \in LogStarts : StartStreaming(s)
  \/ \E c \in LogCalls : LogReply(c)
  \/ \E i \in LogIds : SocketCloses(i) \/ HearEnd(i)
  \/ \E k \in Cleaners : \/ StopAllStreams(k) \/ SyncPods(k) \/ Stopped(k)
                         \/ \E what \in {"context", "clear"} : Clear(k, what)
                         \/ \E to \in LogContexts : SwitchLogs(to, k)

LogSpec == LogInit /\ [][LogNext]_logVars

--------------------------------------------------------------------------
(* Properties                                                              *)

AtRest == inbox = <<>> /\ ~Cleaning

\* At rest every open socket feeds the view that shows it as streaming and can
\* stop it, and belongs to the context on display: unless a start was under way
\* while streams were being stopped, or its first ones ended.  The loop of
\* startStreaming then opens the streams of its other pods all the same.  Nor
\* is it promised once a loop came to its end with no stream listed while a
\* later start awaited its first reply: the end turns isStreaming off for both.
StreamsShown ==
  AtRest /\ ~strayed =>
     \A i \in LogIds : socket[i] # NoId =>
        i[1] = logContext /\ logIds[i[2]] = i[1] /\ isStreaming

\* A line is heard once: at rest the listeners that bear an id are those of its
\* socket's call, except calls whose socket was closed without a word.  Those
\* stay, and hear the next stream of that id as well.
LinesHeardOnce ==
  AtRest => \A c \in hears : socket[Id(c)] = c \/ c \in silenced

\* What the log view shows and hears of the streams.
LogsTrue == LogTypeOK /\ StreamsShown /\ LinesHeardOnce

=============================================================================
