------------------------------ MODULE Hubble ------------------------------
(***************************************************************************)
(* The sidecar's Hubble client (hubble.Manager): one lazily dialled tunnel *)
(* and gRPC connection to the cluster's hubble-relay, shared by concurrent *)
(* GetFlows calls and replaced by Reset on a context switch.               *)
(*                                                                         *)
(* Every action is one critical section of Manager.mu, or one step taken   *)
(* outside it.  A connection is named by the call that dialled it: a call  *)
(* dials at most once.                                                     *)
(***************************************************************************)
EXTENDS Naturals, FiniteSets

CONSTANTS
  Clusters,   \* clusters Reset may attach
  Callers,    \* GetFlows calls, WarmUp's included; each is made at most once
  MaxResets,  \* bound: Reset calls made
  Nothing

ASSUME HubbleAssumption ==
  /\ MaxResets \in Nat
  /\ Nothing \notin Clusters \cup Callers

VARIABLES
  clients,        \* clientset and restConfig: the cluster they reach, or Nothing
  generation,     \* generation
  dialFailed,     \* dialFailed
  dialFailedGen,  \* dialFailedGen
  expired,        \* dialFailedTTL has passed since dialFailedAt
  dialing,        \* dialingCh: the call that is dialling, or Nothing
  conn,           \* grpcConn, stopCh and localPort
  open,           \* tunnels whose stopCh is not closed
  stage,          \* each call: see FlowCallStates
  gen,            \* gen
  source,         \* the cluster a call dialled
  via,            \* the connection a call streams from
  waitingOn,      \* the dial whose channel (waitCh) a call waits on
  flows,          \* what a finished call returned: flows of a cluster, or Nothing
  absentIn        \* history: generations in which a dial found no Hubble

cacheVars  == <<dialFailed, dialFailedGen, expired, absentIn>>
connVars == <<conn, open>>
localVars  == <<gen, source, via, waitingOn, flows>>
hubbleVars == <<clients, generation, cacheVars, dialing, connVars, stage, localVars>>

FlowCallStates == {"idle", "waiting", "dialing", "connected", "discarding",
               "fetching", "checking", "done"}

Dialling(k) == stage[k] \in {"dialing", "connected"}

Goto(k, to) == stage' = [stage EXCEPT ![k] = to]

-----------------------------------------------------------------------------
(* Slips: a definition below as a plausible mistake would have it.  No     *)
(* specification uses them.                                                *)

\* The nil test looks at nothing.
SlipUnattached == FALSE

\* The tear-down forgets to stop the port-forward.
SlipTeardownConnOnly ==
  /\ conn' = Nothing
  /\ dialFailed' = FALSE /\ dialFailedGen' = 0
  /\ UNCHANGED <<open, expired, absentIn>>

\* Reset forgets the dial that is under way.
SlipResetForgetsDial(c) ==
  /\ generation < MaxResets
  /\ generation' = generation + 1
  /\ clients' = c /\ dialing' = Nothing
  /\ conn' = Nothing /\ open' = open \ {conn}
  /\ dialFailed' = FALSE /\ dialFailedGen' = 0
  /\ UNCHANGED <<expired, absentIn, stage, localVars>>

\* An absent Hubble is remembered for the generation of now.
SlipAbsentNow(k) ==
  /\ stage[k] = "dialing"
  /\ Goto(k, "done")
  /\ dialing' = Nothing
  /\ dialFailed' = TRUE /\ dialFailedGen' = generation /\ expired' = FALSE
  /\ absentIn' = absentIn \cup {gen[k]}
  /\ UNCHANGED <<clients, generation, connVars, localVars>>

\* A failed dial wakes the waiters but stays registered.
SlipDialStays(k) ==
  /\ Dialling(k)
  /\ Goto(k, "done")
  /\ open' = open \ {k}
  /\ UNCHANGED <<clients, generation, cacheVars, dialing, conn, localVars>>

\* A dial commits its connection without looking at the generation.
SlipCommitLate(k) ==
  /\ stage[k] = "connected"
  /\ Goto(k, "fetching")
  /\ dialing' = Nothing
  /\ conn' = k
  /\ via' = [via EXCEPT ![k] = k]
  /\ dialFailed' = FALSE /\ dialFailedGen' = 0
  /\ UNCHANGED <<clients, generation, expired, absentIn, open, gen, source,
                 waitingOn, flows>>

\* The flows are returned without a second look at the generation.
SlipDeliverStale(k) ==
  /\ stage[k] = "checking"
  /\ Goto(k, "done")
  /\ flows' = [flows EXCEPT ![k] = source[via[k]]]
  /\ UNCHANGED <<clients, generation, cacheVars, dialing, connVars,
                 gen, source, via, waitingOn>>

-----------------------------------------------------------------------------
HubbleInit ==
  /\ clients = Nothing /\ generation = 0
  /\ dialFailed = FALSE /\ dialFailedGen = 0 /\ expired = FALSE
  /\ dialing = Nothing /\ conn = Nothing /\ open = {}
  /\ stage = [k \in Callers |-> "idle"]
  /\ gen = [k \in Callers |-> 0]
  /\ source = [k \in Callers |-> Nothing]
  /\ via = [k \in Callers |-> Nothing]
  /\ waitingOn = [k \in Callers |-> Nothing]
  /\ flows = [k \in Callers |-> Nothing]
  /\ absentIn = {}

TeardownLocked ==
  /\ conn' = Nothing
  /\ open' = open \ {conn}
  /\ dialFailed' = FALSE /\ dialFailedGen' = 0
  /\ UNCHANGED <<expired, absentIn>>

Reset(c) ==
  /\ generation < MaxResets
  /\ TeardownLocked
  /\ generation' = generation + 1
  /\ clients' = c
  /\ UNCHANGED <<dialing, stage, localVars>>

\* dialFailedTTL passes.
Expire ==
  /\ dialFailed /\ ~expired
  /\ expired' = TRUE
  /\ UNCHANGED <<clients, generation, dialFailed, dialFailedGen, absentIn,
                 dialing, connVars, stage, localVars>>

-----------------------------------------------------------------------------
(* The first critical section of GetFlows, entered by a new call and again *)
(* by one that waited for a dial to end.                                   *)

AtEntry(k) ==
  \/ stage[k] = "idle"
  \/ stage[k] = "waiting" /\ ~Dialling(waitingOn[k])

Unattached == clients = Nothing

FailureCached == dialFailed /\ dialFailedGen = generation

Suppressed == FailureCached /\ ~expired

\* No clients, or the negative cache: no flows.
ReturnNone(k) ==
  /\ AtEntry(k)
  /\ Unattached \/ (conn = Nothing /\ Suppressed)
  /\ Goto(k, "done")
  /\ UNCHANGED <<clients, generation, cacheVars, dialing, connVars, localVars>>

ReuseConnection(k) ==
  /\ AtEntry(k) /\ ~Unattached /\ conn # Nothing
  /\ Goto(k, "fetching")
  /\ via' = [via EXCEPT ![k] = conn]
  /\ gen' = [gen EXCEPT ![k] = generation]
  /\ UNCHANGED <<clients, generation, cacheVars, dialing, connVars, source,
                 waitingOn, flows>>

NeedsDial(k) == AtEntry(k) /\ ~Unattached /\ conn = Nothing /\ ~Suppressed

\* An expired entry of the negative cache is dropped.
DropExpired ==
  /\ dialFailed' = (dialFailed /\ ~FailureCached)
  /\ UNCHANGED <<dialFailedGen, expired, absentIn>>

WaitForDial(k) ==
  /\ NeedsDial(k) /\ dialing # Nothing
  /\ Goto(k, "waiting")
  /\ waitingOn' = [waitingOn EXCEPT ![k] = dialing]
  /\ DropExpired
  /\ UNCHANGED <<clients, generation, dialing, connVars, gen, source, via, flows>>

BeginDial(k) ==
  /\ NeedsDial(k) /\ dialing = Nothing
  /\ Goto(k, "dialing")
  /\ dialing' = k
  /\ gen' = [gen EXCEPT ![k] = generation]
  /\ source' = [source EXCEPT ![k] = clients]
  /\ DropExpired
  /\ UNCHANGED <<clients, generation, connVars, via, waitingOn, flows>>

\* The caller's deadline passes while it waits.
StopWaiting(k) ==
  /\ stage[k] = "waiting"
  /\ Goto(k, "done")
  /\ UNCHANGED <<clients, generation, cacheVars, dialing, connVars, localVars>>

-----------------------------------------------------------------------------
(* dial, outside the lock, and the critical section that commits it.       *)

\* startPortForward has succeeded.
TunnelReady(k) ==
  /\ stage[k] = "dialing"
  /\ Goto(k, "connected")
  /\ open' = open \cup {k}
  /\ UNCHANGED <<clients, generation, cacheVars, dialing, conn, localVars>>

\* errHubbleAbsent: the only failure that is remembered.
DialFindsNone(k) ==
  /\ stage[k] = "dialing"
  /\ Goto(k, "done")
  /\ dialing' = Nothing
  /\ absentIn' = absentIn \cup {gen[k]}
  /\ IF generation = gen[k]
     THEN dialFailed' = TRUE /\ dialFailedGen' = gen[k] /\ expired' = FALSE
     ELSE UNCHANGED <<dialFailed, dialFailedGen, expired>>
  /\ UNCHANGED <<clients, generation, connVars, localVars>>

DialFails(k) ==
  /\ Dialling(k)
  /\ Goto(k, "done")
  /\ dialing' = Nothing
  /\ open' = open \ {k}
  /\ UNCHANGED <<clients, generation, cacheVars, conn, localVars>>

CommitDial(k) ==
  /\ stage[k] = "connected" /\ generation = gen[k]
  /\ Goto(k, "fetching")
  /\ dialing' = Nothing
  /\ conn' = k
  /\ via' = [via EXCEPT ![k] = k]
  /\ dialFailed' = FALSE /\ dialFailedGen' = 0
  /\ UNCHANGED <<clients, generation, expired, absentIn, open, gen, source,
                 waitingOn, flows>>

RefuseDial(k) ==
  /\ stage[k] = "connected" /\ generation # gen[k]
  /\ Goto(k, "discarding")
  /\ dialing' = Nothing
  /\ UNCHANGED <<clients, generation, cacheVars, connVars, localVars>>

\* The lock is released before the refused tunnel is stopped.
Discard(k) ==
  /\ stage[k] = "discarding"
  /\ Goto(k, "done")
  /\ open' = open \ {k}
  /\ UNCHANGED <<clients, generation, cacheVars, dialing, conn, localVars>>

-----------------------------------------------------------------------------
(* fetchFlows.                                                             *)

\* The call fails at once, or breaks mid-stream and keeps what it has.
FetchFails(k) ==
  /\ stage[k] = "fetching"
  /\ \E to \in {"done", "checking"} : Goto(k, to)
  /\ IF generation = gen[k] THEN TeardownLocked
                            ELSE UNCHANGED <<cacheVars, connVars>>
  /\ UNCHANGED <<clients, generation, dialing, localVars>>

FetchEnds(k) ==
  /\ stage[k] = "fetching"
  /\ Goto(k, "checking")
  /\ UNCHANGED <<clients, generation, cacheVars, dialing, connVars, localVars>>

Deliver(k) ==
  /\ stage[k] = "checking"
  /\ Goto(k, "done")
  /\ flows' = IF generation = gen[k] THEN [flows EXCEPT ![k] = source[via[k]]]
                                     ELSE flows
  /\ UNCHANGED <<clients, generation, cacheVars, dialing, connVars,
                 gen, source, via, waitingOn>>

-----------------------------------------------------------------------------
Enter(k) == ReturnNone(k) \/ ReuseConnection(k) \/ WaitForDial(k) \/ BeginDial(k)

Dial(k) == \/ TunnelReady(k) \/ DialFindsNone(k) \/ DialFails(k)
           \/ CommitDial(k) \/ RefuseDial(k) \/ Discard(k)

Fetch(k) == FetchFails(k) \/ FetchEnds(k) \/ Deliver(k)

HubbleNext ==
  \/ \E c \in Clusters : Reset(c)
  \/ Expire
  \/ \E k \in Callers : Enter(k) \/ StopWaiting(k) \/ Dial(k) \/ Fetch(k)

HubbleSpec == HubbleInit /\ [][HubbleNext]_hubbleVars

\* A call that was made goes on: the dial has a 15 s timer and the stream a
\* deadline.  Nothing makes a caller's own deadline, the TTL or a switch come.
Continue(k) == stage[k] # "idle" /\ (Enter(k) \/ Dial(k) \/ Fetch(k))

FairHubbleSpec == HubbleSpec /\ \A k \in Callers : WF_hubbleVars(Continue(k))

-----------------------------------------------------------------------------
HubbleTypeOK ==
  /\ clients \in Clusters \cup {Nothing}
  /\ generation \in Nat
  /\ dialFailed \in BOOLEAN /\ dialFailedGen \in Nat /\ expired \in BOOLEAN
  /\ dialing \in Callers \cup {Nothing}
  /\ conn \in Callers \cup {Nothing}
  /\ open \subseteq Callers
  /\ stage \in [Callers -> FlowCallStates]
  /\ gen \in [Callers -> Nat]
  /\ source \in [Callers -> Clusters \cup {Nothing}]
  /\ via \in [Callers -> Callers \cup {Nothing}]
  /\ waitingOn \in [Callers -> Callers \cup {Nothing}]
  /\ flows \in [Callers -> Clusters \cup {Nothing}]
  /\ absentIn \subseteq Nat
  /\ \A k \in Callers : Dialling(k) => source[k] \in Clusters
  /\ \A k \in Callers : stage[k] = "waiting" => waitingOn[k] \in Callers
  /\ \A k \in Callers : stage[k] \in {"fetching", "checking"} => via[k] \in Callers

-----------------------------------------------------------------------------
(* Properties.                                                             *)

\* GetFlows hands out flows of the cluster that is attached when it returns,
\* never those of a cluster left while the tunnel was dialled or the flows
\* were streaming: no flow of one cluster is drawn on another's topology.
NoCrossClusterFlows ==
  [][\A k \in Callers : flows'[k] # flows[k] => flows'[k] = clients]_hubbleVars

\* A tunnel that runs is the manager's connection, or is held by the call
\* that is setting it up or discarding it: resets, failed streams and late
\* dials leave no port-forward behind that nothing can stop.
TunnelsAccounted ==
  \A j \in open : j = conn \/ stage[j] \in {"connected", "discarding"}

\* Concurrent calls share one dial and one connection, across resets too:
\* apart from tunnels being discarded there is at most one.
SingleTunnel ==
  \A j, k \in open : stage[j] # "discarding" /\ stage[k] # "discarding" => j = k

\* The connection offered for reuse has a running tunnel to the attached
\* cluster.
ConnectionIsCurrent == conn # Nothing => conn \in open /\ source[conn] = clients

\* Dialling is suppressed only if a dial made since the last Reset found that
\* the cluster has no Hubble.
AbsenceIsCurrent == Suppressed => generation \in absentIn

\* A call that was made returns: whoever waits for a dial is woken, however
\* the dial ends and however many resets happen meanwhile.
EveryCallReturns == \A k \in Callers : (stage[k] # "idle") ~> (stage[k] = "done")

=============================================================================
